---- MODULE Spec2Model ----
(***************************************************************************)
(* Model of the swarm-horde-bridge job reconciliation subsystem:           *)
(*   - JobStorage  (internal/services/storage.go)                          *)
(*   - HordeService.GetJobStatus / withRetry / status mapping              *)
(*   - JobMonitor.Start / checkJobs (internal/monitor/jobs.go)             *)
(*   - Handler.handleSwarmTest (internal/handlers)                         *)
(* Records are heap objects: the registry maps a key to a pointer, and     *)
(* List/Get hand out those pointers, as the Go code does.                  *)
(***************************************************************************)
EXTENDS Integers, Sequences, FiniteSets, TLC

\* ---------------------------------------------------------------- bounds
NJobs == 2
MaxObj == 2
MaxTime == 2
MaxTicks == 2
LongJobs == 1
LongTicks == 4
MaxAge == 2
ListJobs == 2
ListTicks == 1
MaxLists == 1
MaxAttemptsIn == 4
MaxNegAttempts == 2
MaxBackoffAttempts == 36
MaxInitialDelay == 2
MaxMaxDelay == 5
MaxBatches == 1
MaxSteps == 1
SubmitJobs == 1
SubmitTicks == 1
LiveJobs == 1
LiveTicks == 2
MainJobs == 1
MainTicks == 2
EvictJobs == 1
EvictTicks == 2
StopJobs == 1
StopTicks == 3

JobIDs == 1..NJobs
ObjIds == 1..MaxObj
Times == 0..MaxTime

\* ------------------------------------------------------- models/models.go
StatusUnknown == "unknown"
StatusPending == "pending"
StatusRunning == "running"
StatusCompleted == "completed"
StatusFailed == "failed"

JobStatus == {StatusUnknown, StatusPending, StatusRunning, StatusCompleted, StatusFailed}

\* the zero value of a JobMapping slot that has not been allocated
NilMapping ==
  [HordeJobID |-> 0, Changelist |-> "", UpdateURL |-> "", Status |-> "",
   CreatedAt |-> 0, UpdatedAt |-> 0]

\* ------------------------------------------------ config (types.go 62-65)
RetryMaxAttempts == 3

VARIABLES
  now,      \* time.Now()
  heap,     \* ObjIds -> JobMapping : the *models.JobMapping objects
  nalloc,   \* number of JobMapping objects allocated so far
  jobs,     \* JobStorage.jobs : key -> pointer (0 = no entry)
  api,      \* the latest direct call of a JobStorage method, with its pre-state
  stored,   \* key -> the pointer most recently stored under it by a direct call
  ctxDone,  \* the context given to JobMonitor.Start is cancelled
  mpc,      \* position of the JobMonitor goroutine
  mlist,    \* checkJobs: jobs (the slice returned by List)
  mi,       \* checkJobs: index of the range loop
  mcur,     \* checkJobs: currentStatus
  mdefer,   \* checkJobs: stack of deferred Delete calls (their evaluated argument)
  ticks,    \* number of ticks started
  mfail,    \* job IDs whose status query or Notifier call failed in this tick
  rjobs,    \* number of jobs the Runner has created
  hpc,      \* position of the webhook handler
  hjob,     \* handleSwarmTest: jobID
  hreq,     \* handleSwarmTest: req
  hresp,    \* handleSwarmTest: the response code (0 while the request is served)
            \* and what the request has done so far
  watch,    \* the job ID whose events are recorded in log
  log,      \* history: events of the watched job, in order
  lpc,      \* position of the handleListJobs request
  llist,    \* handleListJobs: jobs (the slice returned by List)
  lkeys,    \* history: the keys the map held when List was called
  lsnap,    \* history: the field values of the listed records when List returned
  li,       \* handleListJobs: index of the record being encoded
  lstat,    \* handleListJobs: the Status the encoder has read of record li
  lout,     \* the watched job's records as encoded in responses
  lists,    \* number of listing requests started
  retry,    \* a call of withRetry: its inputs and, once it returned, its result
  backoff,  \* the backoff waits of a withRetry call whose attempts all fail
  mapped,   \* a Runner snapshot and, once mapped, its internal status
  config,   \* a call of config.Load: the file, the environment and its result
  mainpc    \* main's position: serving, signalled, shutting, deferred, exited,
            \* fatal (Shutdown failed), failed (ListenAndServe failed)

vars == <<now, heap, nalloc, jobs, api, stored, ctxDone, mpc, mlist, mi, mcur,
          mdefer, ticks, mfail, rjobs, hpc, hjob, hreq, hresp, watch, log,
          lpc, llist, lkeys, lsnap, li, lstat, lout, lists, retry, backoff, mapped,
          config, mainpc>>

\* what the program's goroutines other than main leave alone
pureVars == <<retry, backoff, mapped, config, mainpc>>
readVars == <<lpc, llist, lkeys, lsnap, li, lstat, lout, lists>>

storeVars == <<heap, nalloc, jobs, api, stored>>
monVars == <<mpc, mlist, mi, mcur, mdefer, ticks, mfail>>
handlerVars == <<rjobs, hpc, hjob, hreq, hresp>>

\* ------------------------------------------------------------ sequences
RECURSIVE SeqOfSet(_)
SeqOfSet(S) ==
  IF S = {} THEN {<<>>}
  ELSE UNION {{<<x>> \o s : s \in SeqOfSet(S \ {x})} : x \in S}

Last(s) == s[Len(s)]
Front(s) == SubSeq(s, 1, Len(s) - 1)

\* ------------------------------------------------------------ JobStorage
\* mutant: Store stamps every record
StoreHeapStampsAll(h, p, t) == [o \in DOMAIN h |-> [h[o] EXCEPT !.UpdatedAt = t]]

\* mutant: Store keeps the caller's UpdatedAt
StoreHeapKeepsSupplied(h, p, t) == h

\* Store: mapping.UpdatedAt = time.Now(); s.jobs[jobID] = mapping
StoreHeap(h, p, t) == [h EXCEPT ![p].UpdatedAt = t]
StoreJobs(js, k, p) == [js EXCEPT ![k] = p]

\* Get: mapping, exists := s.jobs[jobID]
Get(k) == [exists |-> jobs[k] # 0, mapping |-> jobs[k]]

\* mutant: Delete removes nothing
DeleteJobsNothing(js, k) == js

\* mutant: Delete clears the map
DeleteJobsAll(js, k) == [j \in DOMAIN js |-> 0]

\* Delete: delete(s.jobs, jobID)
DeleteJobs(js, k) == [js EXCEPT ![k] = 0]

\* mutant: List returns at most one mapping
ListFirstOnly(js) ==
  {<<>>} \cup {<<js[k]>> : k \in {j \in DOMAIN js : js[j] # 0}}

\* List: the pointers held by the map, in the map's (unspecified) iteration order
List(js) ==
  {[i \in 1..Len(ks) |-> js[ks[i]]] : ks \in SeqOfSet({k \in DOMAIN js : js[k] # 0})}

\* mutant: CleanOld also removes a record whose UpdatedAt equals the cutoff
CleanOldJobsInclusive(js, h, t, age) ==
  [k \in DOMAIN js |->
     IF js[k] # 0 /\ h[js[k]].UpdatedAt <= t - age THEN 0 ELSE js[k]]

\* CleanOld: cutoff := time.Now().Add(-age); delete where UpdatedAt.Before(cutoff)
CleanOldJobs(js, h, t, age) ==
  [k \in DOMAIN js |->
     IF js[k] # 0 /\ h[js[k]].UpdatedAt < t - age THEN 0 ELSE js[k]]

\* --------------------------------------------------------- Runner replies
\* horde.GetJobResponse: State, AbortedByUserId (non-nil or nil), Batches
Step(aborted, outcome) == [AbortedByUserId |-> aborted, Outcome |-> outcome]
Batch(error, steps) == [Error |-> error, Steps |-> steps]
Reply(state, aborted, batches) ==
  [State |-> state, AbortedByUserId |-> aborted, Batches |-> batches]

\* the replies the Runner gives to the monitor's status queries
RunnerReplies ==
  { Reply("Waiting", FALSE, <<>>),
    Reply("Running", FALSE, <<>>),
    Reply("Queued", FALSE, <<>>),
    Reply("Complete", FALSE, <<Batch("None", <<Step(FALSE, "Success")>>)>>),
    Reply("Complete", FALSE, <<Batch("Some error occurred", <<>>)>>) }

\* mutant: only the job's own marker is looked at
wasCancelledJobOnly(job) == job.AbortedByUserId

\* wasCancelled
wasCancelled(job) ==
  \/ job.AbortedByUserId
  \/ \E b \in 1..Len(job.Batches) :
       \E s \in 1..Len(job.Batches[b].Steps) :
         job.Batches[b].Steps[s].AbortedByUserId

\* hasErrors
hasErrors(job) ==
  \E b \in 1..Len(job.Batches) :
    \/ job.Batches[b].Error # "None"
    \/ \E s \in 1..Len(job.Batches[b].Steps) :
         job.Batches[b].Steps[s].Outcome = "Failure"

\* mapHordeState
mapHordeState(state) ==
  CASE state = "Running" -> StatusRunning
    [] state = "Complete" -> StatusCompleted
    [] state = "Waiting" -> StatusPending
    [] OTHER -> StatusUnknown

\* -------------------------------------------------------------- withRetry
\* The operation fails its first k calls and then returns val.  c tells when
\* the context is cancelled: <<"never", 0>>, <<"before", 0>> (already
\* cancelled on entry), <<"op", a>> (during the operation call of attempt a,
\* which then fails) or <<"wait", a>> (during the backoff wait that follows
\* attempt a).
\* Result: err is "nil", "ctx" (ctx.Err()), "exhausted" (max retries
\* exceeded: lastErr) or "nospecific" (max retries exceeded without specific
\* error); lastErr is "net" or "ctx" (the operation's own failure);
\* calls counts the invocations of the operation, waits the completed or
\* interrupted backoff waits; cancelled tells whether the context was
\* cancelled by the time withRetry returned.
CancelPoints(maxAttempts) ==
  {<<"never", 0>>} \cup
  {<<kind, a>> : kind \in {"op", "wait"}, a \in 0..(maxAttempts - 1)}

RetryResult(err, val, lastErr, calls, waits, cancelled) ==
  [err |-> err, val |-> val, lastErr |-> lastErr, calls |-> calls,
   waits |-> waits, cancelled |-> cancelled]

RECURSIVE retryLoop(_, _, _, _, _, _, _)
retryLoop(attempt, maxAttempts, k, val, c, lastErr, waits) ==
  IF attempt >= maxAttempts
  THEN \* the for loop ends: lines 199-202
       IF lastErr = "nil"
       THEN RetryResult("nospecific", "none", lastErr, attempt, waits, c[1] = "before")
       ELSE RetryResult("exhausted", "none", lastErr, attempt, waits,
                        c[1] = "op")
  ELSE IF c[1] = "before"
  THEN \* case <-ctx.Done(): return nil, ctx.Err()
       RetryResult("ctx", "none", lastErr, attempt, waits, TRUE)
  ELSE LET opCancelled == c = <<"op", attempt>>
           failed == opCancelled \/ attempt < k
       IN IF ~failed
          THEN RetryResult("nil", val, lastErr, attempt + 1, waits, FALSE)
          ELSE LET e == IF opCancelled THEN "ctx" ELSE "net"
               IN IF attempt < maxAttempts - 1
                  THEN \* select { case <-ctx.Done() ... case <-time.After(delay) }
                       IF opCancelled \/ c = <<"wait", attempt>>
                       THEN RetryResult("ctx", "none", e, attempt + 1, waits + 1, TRUE)
                       ELSE retryLoop(attempt + 1, maxAttempts, k, val, c, e, waits + 1)
                  ELSE retryLoop(attempt + 1, maxAttempts, k, val, c, e, waits)

\* mutant: one attempt more than maxAttempts
withRetryOneMore(maxAttempts, k, val, c) ==
  retryLoop(0, maxAttempts + 1, k, val, c, "nil", 0)

\* mutant: the backoff wait does not watch the context
withRetryWaitsOut(maxAttempts, k, val, c) ==
  retryLoop(0, maxAttempts, k, val, IF c[1] = "wait" THEN <<"never", 0>> ELSE c,
            "nil", 0)

\* mutant: the context is not looked at
withRetryIgnoresContext(maxAttempts, k, val, c) ==
  retryLoop(0, maxAttempts, k, val, <<"never", 0>>, "nil", 0)

withRetry(maxAttempts, k, val, c) ==
  retryLoop(0, maxAttempts, k, val, c, "nil", 0)

\* -------------------------------------------------------- getBackoffDelay
\* A time.Duration is an int64 count of nanoseconds.  It is held as four
\* 16-bit limbs, least significant first, in two's complement; arithmetic
\* wraps at 64 bits as Go's does.
Limb == 65536
Zero64 == <<0, 0, 0, 0>>

\* time.Second = 1000000000 = 15258 * 65536 + 51712
Second == <<51712, 15258, 0, 0>>

\* x * n for 0 <= n < 32768
Mul64(x, n) ==
  LET p1 == x[1] * n
      p2 == x[2] * n + (p1 \div Limb)
      p3 == x[3] * n + (p2 \div Limb)
      p4 == x[4] * n + (p3 \div Limb)
  IN <<p1 % Limb, p2 % Limb, p3 % Limb, p4 % Limb>>

\* x * (1 << uint(n)): the int64 constant 1 shifted by 64 or more is 0
RECURSIVE Shl64(_, _)
Shl64(x, n) ==
  IF n = 0 THEN x
  ELSE IF n >= 64 THEN Zero64
  ELSE Shl64(Mul64(x, 2), n - 1)

Neg64(x) == x[4] >= 32768

\* x > y as int64
Greater64(x, y) ==
  IF Neg64(x) # Neg64(y) THEN Neg64(y)
  ELSE \E i \in 1..4 : x[i] > y[i] /\ \A j \in (i + 1)..4 : x[j] = y[j]

\* getBackoffDelay(attempt, cfg) with cfg.Retry.InitialDelay and
\* cfg.Retry.MaxDelay in 1..32767
getBackoffDelay(attempt, InitialDelay, MaxDelay) ==
  LET delay == Shl64(Mul64(Second, InitialDelay), attempt)
      maxDelay == Mul64(Second, MaxDelay)
  IN IF Greater64(delay, maxDelay) THEN maxDelay ELSE delay

\* ------------------------------------------------ HordeService.GetJobStatus
\* lines 101-115: the cancellation check, the error check, mapHordeState
MappedStatus(job) ==
  IF wasCancelled(job) THEN StatusFailed
  ELSE IF hasErrors(job) THEN StatusFailed
  ELSE mapHordeState(job.State)

\* err = "nil" and the mapped status, or the wrapped withRetry error and
\* StatusUnknown
GetJobStatus(maxAttempts, k, reply, c) ==
  LET r == withRetry(maxAttempts, k, reply, c)
  IN IF r.err # "nil"
     THEN [status |-> StatusUnknown, err |-> r.err, cancelled |-> r.cancelled]
     ELSE [status |-> MappedStatus(r.val), err |-> "nil", cancelled |-> r.cancelled]

\* ------------------------------------------- config.Load (config/types.go)
\* Config with every field at its zero value, as `var cfg Config` is
ZeroConfig ==
  [Port |-> 0, HordeHost |-> "", HordeAPIKey |-> "", HordeTimeout |-> 0,
   SwarmHost |-> "", SwarmTimeout |-> 0, Interval |-> 0, HTTPClient |-> 0,
   Shutdown |-> 0, MaxAttempts |-> 0, InitialDelay |-> 0, MaxDelay |-> 0,
   LogLevel |-> ""]

\* yaml.Unmarshal(data, &cfg): a key the file gives (<<v>>) sets its field,
\* a key the file omits (<<>>) leaves the field at its zero value
Unmarshal(content) ==
  [f \in DOMAIN ZeroConfig |->
     IF content[f] = <<>> THEN ZeroConfig[f] ELSE content[f][1]]

Digits == <<"0", "1", "2", "3", "4", "5", "6", "7", "8", "9">>

IsDigit(c) == \E i \in DOMAIN Digits : Digits[i] = c

DigitOf(c) == (CHOOSE i \in DOMAIN Digits : Digits[i] = c) - 1

RECURSIVE DecimalValue(_, _)
DecimalValue(s, acc) ==
  IF s = <<>> THEN acc ELSE DecimalValue(Tail(s), acc * 10 + DigitOf(Head(s)))

\* strconv.Atoi of a short string, given as the sequence of its characters:
\* an optional sign, then one or more decimal digits
Atoi(s) ==
  LET signed == s # <<>> /\ Head(s) \in {"+", "-"}
      body == IF signed THEN Tail(s) ELSE s
      ok == body # <<>> /\ \A i \in DOMAIN body : IsDigit(body[i])
      n == IF ok THEN DecimalValue(body, 0) ELSE 0
  IN [ok |-> ok, val |-> IF signed /\ Head(s) = "-" THEN -n ELSE n]

\* the overrides of loadEnvOverrides in the order of the code: variable,
\* field, kind, and the error of a value that is not an integer
EnvTable ==
  << <<"PORT", "Port", "int", "invalid PORT value">>,
     <<"HORDE_HOST", "HordeHost", "string", "">>,
     <<"HORDE_API_KEY", "HordeAPIKey", "string", "">>,
     <<"HORDE_TIMEOUT", "HordeTimeout", "int", "invalid HORDE_TIMEOUT value">>,
     <<"SWARM_HOST", "SwarmHost", "string", "">>,
     <<"SWARM_TIMEOUT", "SwarmTimeout", "int", "invalid SWARM_TIMEOUT value">>,
     <<"MONITOR_INTERVAL", "Interval", "int", "invalid MONITOR_INTERVAL value">>,
     <<"TIMEOUT_HTTP_CLIENT", "HTTPClient", "int", "invalid TIMEOUT_HTTP_CLIENT value">>,
     <<"TIMEOUT_SHUTDOWN", "Shutdown", "int", "invalid TIMEOUT_SHUTDOWN value">>,
     <<"RETRY_MAX_ATTEMPTS", "MaxAttempts", "int", "invalid RETRY_MAX_ATTEMPTS value">>,
     <<"RETRY_INITIAL_DELAY", "InitialDelay", "int", "invalid RETRY_INITIAL_DELAY value">>,
     <<"RETRY_MAX_DELAY", "MaxDelay", "int", "invalid RETRY_MAX_DELAY value">>,
     <<"LOG_LEVEL", "LogLevel", "string", "">> >>

\* loadEnvOverrides from its i-th override on. env gives os.Getenv of each
\* variable: "" (a string) or <<>> (an integer variable, as characters) when
\* it is unset or empty
RECURSIVE envOverridesFrom(_, _, _)
envOverridesFrom(cfg, env, i) ==
  IF i > Len(EnvTable) THEN [err |-> "nil", cfg |-> cfg]
  ELSE LET row == EnvTable[i]
           v == env[row[1]]
       IN IF row[3] = "string"
            THEN envOverridesFrom(IF v # "" THEN [cfg EXCEPT ![row[2]] = v] ELSE cfg,
                                  env, i + 1)
          ELSE IF v = <<>> THEN envOverridesFrom(cfg, env, i + 1)
          ELSE IF ~Atoi(v).ok THEN [err |-> row[4], cfg |-> cfg]
          ELSE envOverridesFrom([cfg EXCEPT ![row[2]] = Atoi(v).val], env, i + 1)

loadEnvOverrides(cfg, env) == envOverridesFrom(cfg, env, 1)

\* validate(cfg): its error, "nil" for none
validate(cfg) ==
  IF cfg.HordeHost = "" THEN "horde host is required"
  ELSE IF cfg.HordeAPIKey = "" THEN "horde API key is required"
  ELSE IF cfg.Port <= 0 \/ cfg.Port > 65535 THEN "invalid port number"
  ELSE "nil"

\* setDefaults(cfg)
setDefaults(cfg) ==
  [cfg EXCEPT
     !.Port = IF @ = 0 THEN 8080 ELSE @,
     !.SwarmHost = IF @ = "" THEN "http://localhost" ELSE @,
     !.SwarmTimeout = IF @ = 0 THEN 30 ELSE @,
     !.Interval = IF @ = 0 THEN 30 ELSE @,
     !.HTTPClient = IF @ = 0 THEN 30 ELSE @,
     !.Shutdown = IF @ = 0 THEN 5 ELSE @,
     !.MaxAttempts = IF @ = 0 THEN RetryMaxAttempts ELSE @,
     !.InitialDelay = IF @ = 0 THEN 1 ELSE @,
     !.MaxDelay = IF @ = 0 THEN 5 ELSE @,
     !.LogLevel = IF @ = "" THEN "info" ELSE @]

\* what Load returns: the stage whose error it wraps ("" for none), the
\* error, and the configuration (nil on an error)
LoadResult(stage, err, cfg) ==
  [stage |-> stage, err |-> err, nil |-> err # "nil", cfg |-> cfg]

\* Load(path) of a file in an environment
Load(file, env) ==
  IF file.kind = "missing"
    THEN LoadResult("reading config file", "no such file", ZeroConfig)
  ELSE IF file.kind = "malformed"
    THEN LoadResult("parsing config file", "yaml error", ZeroConfig)
  ELSE LET over == loadEnvOverrides(Unmarshal(file.content), env)
       IN IF over.err # "nil"
            THEN LoadResult("loading environment overrides", over.err, ZeroConfig)
          ELSE IF validate(over.cfg) # "nil"
            THEN LoadResult("validating config", validate(over.cfg), ZeroConfig)
          ELSE LoadResult("", "nil", setDefaults(over.cfg))

\* ------------------------------------------------------------- history
\* one event of the watched job
Ev(e, src, s, was, at, ok, url, id, msgs, t) ==
  [e |-> e, src |-> src, s |-> s, was |-> was, at |-> at, ok |-> ok,
   url |-> url, id |-> id, msgs |-> msgs, t |-> t]

ObsEv(s, was, at, t) == Ev("obs", "loop", s, was, at, TRUE, "", 0, <<>>, t)
StoreEv(src, s, url, t) == Ev("store", src, s, "", 0, TRUE, url, 0, <<>>, t)
NotifyEv(src, s, ok, url, id, msgs, t) == Ev("notify", src, s, "", 0, ok, url, id, msgs, t)
DeleteEv(t) == Ev("delete", "loop", "", "", 0, TRUE, "", 0, <<>>, t)

Record(j, ev) == IF j = watch THEN Append(log, ev) ELSE log

\* ------------------------------------------------------------------ Init
NoResponse == [code |-> 0, submitted |-> FALSE, stores |-> 0, notifies |-> 0]

NoRetry ==
  [maxAttempts |-> 0, k |-> 0, c |-> <<"never", 0>>, done |-> FALSE,
   res |-> RetryResult("nil", "none", "nil", 0, 0, FALSE)]

NoBackoff ==
  [InitialDelay |-> 0, MaxDelay |-> 0, MaxAttempts |-> 0, attempt |-> 0,
   delay |-> <<0, 0, 0, 0>>, prev |-> <<0, 0, 0, 0>>]

NoMapped == [job |-> Reply("", FALSE, <<>>), done |-> FALSE, status |-> ""]

\* no file, an empty environment, Load not called
NoFile == [kind |-> "missing", content |-> [f \in DOMAIN ZeroConfig |-> <<>>]]

NoEnv ==
  [PORT |-> <<>>, HORDE_HOST |-> "", HORDE_API_KEY |-> "", HORDE_TIMEOUT |-> <<>>,
   SWARM_HOST |-> "", SWARM_TIMEOUT |-> <<>>, MONITOR_INTERVAL |-> <<>>,
   TIMEOUT_HTTP_CLIENT |-> <<>>, TIMEOUT_SHUTDOWN |-> <<>>,
   RETRY_MAX_ATTEMPTS |-> <<>>, RETRY_INITIAL_DELAY |-> <<>>,
   RETRY_MAX_DELAY |-> <<>>, LOG_LEVEL |-> ""]

NoConfig ==
  [file |-> NoFile, env |-> NoEnv, done |-> FALSE,
   res |-> LoadResult("", "nil", ZeroConfig)]

NoCall ==
  [op |-> "none", key |-> 0, obj |-> 0, age |-> 0, at |-> 0, supplied |-> 0,
   pre |-> [k \in JobIDs |-> 0], preheap |-> [o \in ObjIds |-> NilMapping],
   ret |-> <<>>, prev |-> <<"none", 0>>]

InitProgram ==
  /\ mainpc = "serving"
  /\ now = 0
  /\ heap = [o \in ObjIds |-> NilMapping]
  /\ nalloc = 0
  /\ jobs = [k \in JobIDs |-> 0]
  /\ api = NoCall
  /\ stored = [k \in JobIDs |-> 0]
  /\ ctxDone = FALSE
  /\ mpc = "idle"
  /\ mlist = <<>>
  /\ mi = 0
  /\ mcur = ""
  /\ mdefer = <<>>
  /\ ticks = 0
  /\ mfail = {}
  /\ rjobs = 0
  /\ hpc = "idle"
  /\ hjob = 0
  /\ hreq = [Changelist |-> "", UpdateURL |-> ""]
  /\ hresp = NoResponse
  /\ watch \in JobIDs
  /\ log = <<>>
  /\ lpc = "idle"
  /\ llist = <<>>
  /\ lkeys = {}
  /\ lsnap = <<>>
  /\ li = 0
  /\ lstat = ""
  /\ lout = <<>>
  /\ lists = 0

\* the program at start: no call of the helpers is under way
Init ==
  /\ InitProgram
  /\ retry = NoRetry
  /\ backoff = NoBackoff
  /\ mapped = NoMapped
  /\ config = NoConfig

\* ---------------------------------------------------------- environment
\* main: cancel() of the context given to jobMonitor.Start
Cancel ==
  /\ ~ctxDone
  /\ ctxDone' = TRUE
  /\ UNCHANGED <<now, storeVars, monVars, handlerVars, watch, pureVars, readVars, log>>

\* ------------------------------------------------ Handler.handleSwarmTest
\* the callback URL of the n-th submission: one seen before or a new one
RequestURLs(n) == {"u1"} \cup (IF n > 1 THEN {"u2"} ELSE {})
Changelists == {"cl1"}

\* lines 56-85: decode, validate, hordeService.CreateJob returns a new job ID
HandleSubmit(maxJobs) ==
  /\ hpc = "idle"
  /\ rjobs < maxJobs
  /\ nalloc < MaxObj
  /\ \E cl \in Changelists, url \in RequestURLs(rjobs + 1) :
       hreq' = [Changelist |-> cl, UpdateURL |-> url]
  /\ rjobs' = rjobs + 1
  /\ hjob' = rjobs + 1
  /\ hresp' = [NoResponse EXCEPT !.submitted = TRUE]
  /\ hpc' = "store"
  /\ UNCHANGED <<now, storeVars, ctxDone, monVars, watch, pureVars, readVars, log>>

\* lines 87-95: mapping := &models.JobMapping{...}; h.jobStorage.Store(jobID, mapping)
HandleStore ==
  /\ hpc = "store"
  /\ LET p == nalloc + 1
         mapping == [HordeJobID |-> hjob, Changelist |-> hreq.Changelist,
                     UpdateURL |-> hreq.UpdateURL, Status |-> StatusPending,
                     CreatedAt |-> now, UpdatedAt |-> now]
     IN /\ nalloc' = p
        /\ heap' = StoreHeap([heap EXCEPT ![p] = mapping], p, now)
        /\ jobs' = StoreJobs(jobs, hjob, p)
  /\ log' = Record(hjob, StoreEv("handler", StatusPending, hreq.UpdateURL, ticks))
  /\ hresp' = [hresp EXCEPT !.stores = hresp.stores + 1]
  /\ hpc' = "notify"
  /\ UNCHANGED <<now, api, stored, ctxDone, monVars, rjobs, hjob, hreq, watch, pureVars, readVars>>

\* mutant: a failed UpdateStatus turns the response into an error
AcceptedOnlyIfNotified(ok) == IF ok THEN 202 ELSE 500

\* lines 98-107: the error of UpdateStatus is logged only;
\* w.WriteHeader(http.StatusAccepted)
AcceptedResponse(ok) == 202

\* lines 97-107: h.swarmService.UpdateStatus(..., "running", ...); 202
HandleNotify ==
  /\ hpc = "notify"
  /\ \E ok \in BOOLEAN :
       /\ log' = Record(hjob, NotifyEv("handler", "running", ok, hreq.UpdateURL, hjob,
                                       <<"Started Horde job">>, ticks))
       /\ hresp' = [hresp EXCEPT !.code = AcceptedResponse(ok),
                                 !.notifies = hresp.notifies + 1]
  /\ hpc' = "idle"
  /\ UNCHANGED <<now, storeVars, ctxDone, monVars, rjobs, hjob, hreq, watch, pureVars, readVars>>

\* the request bodies considered: either field may be empty
Requests ==
  {[Changelist |-> cl, UpdateURL |-> url] : cl \in {"", "cl1"}, url \in {"", "u1"}}

\* mutant: only the changelist is required
ValidRequestChangelistOnly(req) == req.Changelist # ""

\* line 69: if req.Changelist == "" || req.UpdateURL == "" -> 400
ValidRequest(req) == ~(req.Changelist = "" \/ req.UpdateURL = "")

\* lines 59-63: the body cannot be decoded; 400
HandleUndecodable ==
  /\ hpc = "idle"
  /\ hreq' = [Changelist |-> "", UpdateURL |-> ""]
  /\ hresp' = [NoResponse EXCEPT !.code = 400]
  /\ UNCHANGED <<now, storeVars, ctxDone, monVars, rjobs, hpc, hjob, watch, pureVars,
                 readVars, log>>

\* lines 68-73: a required field is missing; 400
HandleInvalid ==
  /\ hpc = "idle"
  /\ \E req \in Requests :
       /\ ~ValidRequest(req)
       /\ hreq' = req
  /\ hresp' = [NoResponse EXCEPT !.code = 400]
  /\ UNCHANGED <<now, storeVars, ctxDone, monVars, rjobs, hpc, hjob, watch, pureVars,
                 readVars, log>>

\* the outcomes of hordeService.CreateJob: withRetry around client.CreateJob,
\* which fails its first k calls, under the context of the request, which
\* the client or the router's timeout may cancel at any point: before the
\* first attempt, during a call or during a wait
CreateJobResults(id) ==
  {withRetry(RetryMaxAttempts, k, id, c) :
     k \in 0..RetryMaxAttempts,
     c \in CancelPoints(RetryMaxAttempts) \cup {<<"before", 0>>}}

\* lines 77-83: CreateJob returns an error; 500.  submitted tells whether
\* the Runner's submit call was made at all
HandleCreateFails ==
  /\ hpc = "idle"
  /\ \E req \in Requests, r \in CreateJobResults(rjobs + 1) :
       /\ ValidRequest(req)
       /\ r.err # "nil"
       /\ hreq' = req
       /\ hresp' = [NoResponse EXCEPT !.code = 500, !.submitted = r.calls > 0]
  /\ UNCHANGED <<now, storeVars, ctxDone, monVars, rjobs, hpc, hjob, watch, pureVars,
                 readVars, log>>

\* lines 56-85 with any request body: CreateJob returns a new job ID
HandleCreate(maxJobs) ==
  /\ hpc = "idle"
  /\ rjobs < maxJobs
  /\ nalloc < MaxObj
  /\ \E req \in Requests, r \in CreateJobResults(rjobs + 1) :
       /\ ValidRequest(req)
       /\ r.err = "nil"
       /\ hreq' = req
       /\ hjob' = r.val
       /\ hresp' = [NoResponse EXCEPT !.submitted = r.calls > 0]
  /\ rjobs' = rjobs + 1
  /\ hpc' = "store"
  /\ UNCHANGED <<now, storeVars, ctxDone, monVars, watch, pureVars, readVars, log>>

\* handleSwarmTest with its rejections and failures
Submission(maxJobs) ==
  \/ HandleUndecodable \/ HandleInvalid \/ HandleCreateFails \/ HandleCreate(maxJobs)
  \/ HandleStore \/ HandleNotify

\* ------------------------------------------------------------ JobMonitor
\* where checkJobs goes after the pass of index i: the next job of the
\* listing, or the return of checkJobs, which runs the deferred calls
\* mutant: checkJobs returns without running its deferred calls
AfterPassSkipsDefers(i, defers) == IF i < Len(mlist) THEN "query" ELSE "idle"

AfterPass(i, defers) ==
  IF i < Len(mlist) THEN "query"
  ELSE IF defers # <<>> THEN "defer" ELSE "idle"

\* Start: case <-ticker.C: m.checkJobs(ctx); checkJobs line 53: jobs := List().
\* The ticker drives the clock: one interval has passed at every tick.
MonTick(maxTicks) ==
  /\ mpc = "idle"
  /\ ticks < maxTicks
  /\ ticks' = ticks + 1
  /\ now' = now + 1
  /\ mlist' \in List(jobs)
  /\ mi' = 1
  /\ mdefer' = <<>>
  /\ mfail' = {}
  /\ mpc' = IF mlist' = <<>> THEN "idle" ELSE "query"
  /\ UNCHANGED <<storeVars, ctxDone, mcur, handlerVars, watch, pureVars, readVars, log>>

\* mutant: Start does not watch the context
MonStopNever == FALSE /\ UNCHANGED vars

\* Start: case <-ctx.Done(): return
MonStop ==
  /\ mpc = "idle"
  /\ ctxDone
  /\ mpc' = "stopped"
  /\ UNCHANGED <<now, storeVars, ctxDone, mlist, mi, mcur, mdefer, ticks, mfail,
                 handlerVars, watch, pureVars, readVars, log>>

\* the results GetJobStatus can return to checkJobs
QueryResults ==
  {GetJobStatus(RetryMaxAttempts, k, reply, c) :
     k \in 0..RetryMaxAttempts, reply \in RunnerReplies,
     c \in (IF ctxDone THEN {<<"before", 0>>} ELSE CancelPoints(RetryMaxAttempts))}

\* mutant: the error of GetJobStatus is ignored
QueryFailedIgnored(r) == FALSE

\* checkJobs line 60: if err != nil
QueryFailed(r) == r.err # "nil"

\* mutant: return instead of continue
SkipJobReturns(i, defers) == IF defers # <<>> THEN "defer" ELSE "idle"

\* checkJobs line 64: continue
SkipJob(i, defers) == AfterPass(i, defers)

\* mutant: every observation counts as a change
StatusChangedAlways(currentStatus, status) == TRUE

\* mutant: the observation is compared with the status at insertion
StatusChangedFromPending(currentStatus, status) == currentStatus # StatusPending

\* checkJobs line 68: if currentStatus == job.Status { continue }
StatusChanged(currentStatus, status) == currentStatus # status

\* checkJobs lines 59-71: GetJobStatus, the error check and the comparison
MonQuery ==
  /\ mpc = "query"
  /\ LET job == mlist[mi]
         id == heap[job].HordeJobID
     IN \E r \in QueryResults :
          /\ ctxDone' = (ctxDone \/ r.cancelled)
          /\ log' = Record(id, ObsEv(IF r.err # "nil" THEN "error" ELSE r.status,
                                      heap[job].Status, heap[job].UpdatedAt, ticks))
          /\ mfail' = IF r.err # "nil" THEN mfail \cup {id} ELSE mfail
          /\ IF QueryFailed(r)
             THEN /\ mpc' = SkipJob(mi, mdefer)
                  /\ mi' = mi + 1
                  /\ mcur' = mcur
             ELSE /\ mcur' = r.status
                  /\ IF StatusChanged(r.status, heap[job].Status)
                     THEN /\ mpc' = "status"
                          /\ mi' = mi
                     ELSE /\ mpc' = AfterPass(mi, mdefer)
                          /\ mi' = mi + 1
  /\ UNCHANGED <<now, storeVars, mlist, mdefer, ticks, handlerVars, watch, pureVars, readVars>>

\* checkJobs line 74: job.Status = currentStatus
MonSetStatus ==
  /\ mpc = "status"
  /\ heap' = [heap EXCEPT ![mlist[mi]].Status = mcur]
  /\ mpc' = "updated"
  /\ UNCHANGED <<now, nalloc, jobs, api, stored, ctxDone, mlist, mi, mcur, mdefer,
                 ticks, mfail, handlerVars, watch, pureVars, readVars, log>>

\* checkJobs line 75: job.UpdatedAt = time.Now()
MonSetUpdatedAt ==
  /\ mpc = "updated"
  /\ heap' = [heap EXCEPT ![mlist[mi]].UpdatedAt = now]
  /\ mpc' = "store"
  /\ UNCHANGED <<now, nalloc, jobs, api, stored, ctxDone, mlist, mi, mcur, mdefer,
                 ticks, mfail, handlerVars, watch, pureVars, readVars, log>>

\* checkJobs line 76: m.jobStorage.Store(job.HordeJobID, job)
MonStore ==
  /\ mpc = "store"
  /\ LET job == mlist[mi]
         id == heap[job].HordeJobID
     IN /\ heap' = StoreHeap(heap, job, now)
        /\ jobs' = StoreJobs(jobs, id, job)
        /\ log' = Record(id, StoreEv("loop", heap[job].Status, "", ticks))
  /\ mpc' = "notify"
  /\ UNCHANGED <<now, nalloc, api, stored, ctxDone, mlist, mi, mcur, mdefer, ticks,
                 mfail, handlerVars, watch, pureVars, readVars>>

\* mutant: the cases of the switch are swapped
SwarmStatusSwapped(status) ==
  CASE status = StatusCompleted -> "fail"
    [] status = StatusFailed -> "pass"
    [] status = StatusRunning -> "running"
    [] OTHER -> ""

\* checkJobs lines 83-97: the switch on currentStatus
SwarmStatus(status) ==
  CASE status = StatusCompleted -> "pass"
    [] status = StatusFailed -> "fail"
    [] status = StatusRunning -> "running"
    [] OTHER -> ""

SwarmMessage(status) ==
  CASE status = StatusCompleted -> "Horde job completed successfully"
    [] status = StatusFailed -> "Horde job failed"
    [] status = StatusRunning -> "Horde job is running"
    [] OTHER -> ""

\* mutant: no job is evicted
DefersDeleteNever(status) == FALSE

\* mutant: only a completed job is evicted
DefersDeleteCompletedOnly(status) == status = StatusCompleted

\* mutant: only a failed job is evicted
DefersDeleteFailedOnly(status) == status = StatusFailed

DefersDelete(status) == status \in {StatusCompleted, StatusFailed}

\* checkJobs lines 83-106: the switch, the deferred Delete, UpdateStatus
MonNotify ==
  /\ mpc = "notify"
  /\ LET job == mlist[mi]
         id == heap[job].HordeJobID
         defers == IF DefersDelete(mcur) THEN Append(mdefer, id) ELSE mdefer
     IN /\ mdefer' = defers
        /\ mpc' = AfterPass(mi, defers)
        /\ mi' = mi + 1
        /\ IF SwarmStatus(mcur) = ""
           THEN /\ log' = log
                /\ mfail' = mfail
           ELSE \E ok \in (IF ctxDone THEN {FALSE} ELSE BOOLEAN) :
                  /\ log' = Record(id, NotifyEv("loop", SwarmStatus(mcur), ok,
                                                heap[job].UpdateURL, id,
                                                <<SwarmMessage(mcur)>>, ticks))
                  /\ mfail' = IF ok THEN mfail ELSE mfail \cup {id}
  /\ UNCHANGED <<now, storeVars, ctxDone, mlist, mcur, ticks, handlerVars, watch, pureVars, readVars>>

\* checkJobs returns: the deferred m.jobStorage.Delete calls run, last first
MonDefer ==
  /\ mpc = "defer"
  /\ jobs' = DeleteJobs(jobs, Last(mdefer))
  /\ log' = Record(Last(mdefer), DeleteEv(ticks))
  /\ mdefer' = Front(mdefer)
  /\ mpc' = IF mdefer' = <<>> THEN "idle" ELSE "defer"
  /\ UNCHANGED <<now, heap, nalloc, api, stored, ctxDone, mlist, mi, mcur, ticks,
                 mfail, handlerVars, watch, pureVars, readVars>>

Monitor(maxTicks) ==
  \/ MonTick(maxTicks) \/ MonStop \/ MonQuery \/ MonSetStatus \/ MonSetUpdatedAt
  \/ MonStore \/ MonNotify \/ MonDefer

Handler(maxJobs) == HandleSubmit(maxJobs) \/ HandleStore \/ HandleNotify

\* the program: submissions run concurrently with the reconciliation loop
Next == Cancel \/ Handler(NJobs) \/ Monitor(MaxTicks)

Spec == Init /\ [][Next]_vars

\* the program over a longer run of ticks
NextLong == Cancel \/ Handler(LongJobs) \/ Monitor(LongTicks)

SpecLong == Init /\ [][NextLong]_vars

\* the program with every outcome of a submission
NextSubmit == Cancel \/ Submission(SubmitJobs) \/ Monitor(SubmitTicks)

SpecSubmit == Init /\ [][NextSubmit]_vars

\* The monitor goroutine is scheduled as long as it can take a step, and the
\* select of Start, which chooses at random among its ready cases, does not
\* pass over a ready ctx.Done() forever.
NextStop == Cancel \/ Handler(StopJobs) \/ Monitor(StopTicks)

SpecStop ==
  /\ Init
  /\ [][NextStop]_vars
  /\ WF_vars(Monitor(StopTicks))
  /\ SF_vars(MonStop)

\* ------------------------------------------- the loop with no last tick
\* Start: case <-ticker.C, once more: the ticker goes on firing.  The tick
\* counter and the clock stay at their bound.
MonTickAgain(maxTicks) ==
  /\ mpc = "idle"
  /\ ticks = maxTicks
  /\ mlist' \in List(jobs)
  /\ mi' = 1
  /\ mdefer' = <<>>
  /\ mfail' = {}
  /\ mpc' = IF mlist' = <<>> THEN "idle" ELSE "query"
  /\ UNCHANGED <<now, ticks, storeVars, ctxDone, mcur, handlerVars, watch, pureVars,
                 readVars, log>>

\* the history is not kept: the watched job ID is one no submission gets
InitLive == Init /\ watch = NJobs

Loop(maxTicks) == Monitor(maxTicks) \/ MonTickAgain(maxTicks)

NextLive == Cancel \/ Handler(LiveJobs) \/ Loop(LiveTicks)

\* The ticker fires again and again and the monitor goroutine is scheduled
\* as long as it can take a step.
SpecLive == InitLive /\ [][NextLive]_vars /\ WF_vars(Loop(LiveTicks))

\* ------------------------------------------------- Handler.handleListJobs
\* json.NewEncoder(w).Encode(jobs) reads the fields of every listed record
\* through its pointer, in the order of the struct: ..., Status, CreatedAt,
\* UpdatedAt.  Status is read in one step and UpdatedAt in a later one.
AfterEncode(i) == IF i < Len(llist) THEN "status" ELSE "idle"

\* line 111: jobs := h.jobStorage.List()
ListCall(maxLists) ==
  /\ lpc = "idle"
  /\ lists < maxLists
  /\ lists' = lists + 1
  /\ llist' \in List(jobs)
  /\ lkeys' = {k \in JobIDs : jobs[k] # 0}
  /\ lsnap' = [i \in 1..Len(llist') |-> heap[llist'[i]]]
  /\ li' = 1
  /\ lpc' = IF llist' = <<>> THEN "idle" ELSE "status"
  /\ UNCHANGED <<now, storeVars, ctxDone, monVars, handlerVars, watch, pureVars, log, lstat,
                 lout>>

\* line 114, Encode: the Status field of record li is read
ListReadStatus ==
  /\ lpc = "status"
  /\ lstat' = heap[llist[li]].Status
  /\ lpc' = "updated"
  /\ UNCHANGED <<now, storeVars, ctxDone, monVars, handlerVars, watch, pureVars, log, llist,
                 lkeys, lsnap, li, lout, lists>>

\* line 114, Encode: the UpdatedAt field of record li is read and the record
\* is written to the response
ListReadUpdatedAt ==
  /\ lpc = "updated"
  /\ LET job == heap[llist[li]]
     IN lout' = IF job.HordeJobID = watch
                THEN Append(lout, [Status |-> lstat, UpdatedAt |-> job.UpdatedAt])
                ELSE lout
  /\ lpc' = AfterEncode(li)
  /\ li' = li + 1
  /\ UNCHANGED <<now, storeVars, ctxDone, monVars, handlerVars, watch, pureVars, log, llist,
                 lkeys, lsnap, lstat, lists>>

ListJobsHandler(maxLists) == ListCall(maxLists) \/ ListReadStatus \/ ListReadUpdatedAt

\* the program with a listing request served while submissions and the
\* reconciliation loop run
NextList ==
  Cancel \/ Handler(ListJobs) \/ Monitor(ListTicks) \/ ListJobsHandler(MaxLists)

SpecList == Init /\ [][NextList]_vars

\* ------------------------------------------------- withRetry called alone
\* the calls considered: maxAttempts attempts allowed, an operation that fails
\* its first k calls, the context cancelled at c
RetryInputs ==
  {[maxAttempts |-> m, k |-> k, c |-> c, done |-> FALSE, res |-> NoRetry.res] :
     m \in 1..MaxAttemptsIn, k \in 0..(MaxAttemptsIn + 1),
     c \in {<<"never", 0>>, <<"before", 0>>} \cup
           {<<kind, a>> : kind \in {"op", "wait"}, a \in 0..(MaxAttemptsIn - 1)}}

InitRetry ==
  /\ InitProgram
  /\ retry \in {r \in RetryInputs : r.c \in CancelPoints(r.maxAttempts) \cup {<<"before", 0>>}}
  /\ backoff = NoBackoff
  /\ mapped = NoMapped
  /\ config = NoConfig

\* s.withRetry(ctx, op) runs and returns
RetryCall ==
  /\ ~retry.done
  /\ retry.maxAttempts > 0
  /\ retry' = [retry EXCEPT !.done = TRUE,
                             !.res = withRetry(retry.maxAttempts, retry.k, "value", retry.c)]
  /\ UNCHANGED <<now, storeVars, ctxDone, monVars, handlerVars, watch, log, readVars,
                 backoff, mapped, config, mainpc>>

NextRetry == RetryCall

SpecRetry == InitRetry /\ [][NextRetry]_vars

\* ------------------------------- withRetry under a configured retry policy
\* the value of Retry.MaxAttempts that NewHordeService finds in the
\* configuration Load returned: setDefaults has replaced 0
ConfiguredAttempts(n) == setDefaults([ZeroConfig EXCEPT !.MaxAttempts = n]).MaxAttempts

\* the calls considered: retry.maxAttempts is the value given in the file or
\* the environment; the context is not cancelled when withRetry is called
ConfiguredInputs ==
  {[maxAttempts |-> m, k |-> k, c |-> c, done |-> FALSE, res |-> NoRetry.res] :
     m \in (0 - MaxNegAttempts)..MaxAttemptsIn, k \in 0..(MaxAttemptsIn + 1),
     c \in {<<"never", 0>>} \cup
           {<<kind, a>> : kind \in {"op", "wait"}, a \in 0..(MaxAttemptsIn - 1)}}

InitConfigured ==
  /\ InitProgram
  /\ retry \in {r \in ConfiguredInputs :
                  r.c \in CancelPoints(ConfiguredAttempts(r.maxAttempts))}
  /\ backoff = NoBackoff
  /\ mapped = NoMapped
  /\ config = NoConfig

\* s.withRetry(ctx, op) runs with s.cfg.Retry.MaxAttempts as configured
ConfiguredRetryCall ==
  /\ ~retry.done
  /\ retry' = [retry EXCEPT
                 !.done = TRUE,
                 !.res = withRetry(ConfiguredAttempts(retry.maxAttempts), retry.k,
                                   "value", retry.c)]
  /\ UNCHANGED <<now, storeVars, ctxDone, monVars, handlerVars, watch, log, readVars,
                 backoff, mapped, config, mainpc>>

NextConfigured == ConfiguredRetryCall

SpecConfigured == InitConfigured /\ [][NextConfigured]_vars

\* -------------------------------------------- the backoff waits of withRetry
\* the retry policies considered
BackoffInputs ==
  {[InitialDelay |-> i, MaxDelay |-> m, MaxAttempts |-> n, attempt |-> 0,
    delay |-> Zero64, prev |-> Zero64] :
     i \in 1..MaxInitialDelay, m \in 1..MaxMaxDelay, n \in 1..MaxBackoffAttempts}

InitBackoff ==
  /\ InitProgram
  /\ retry = NoRetry
  /\ backoff \in BackoffInputs
  /\ mapped = NoMapped
  /\ config = NoConfig

\* withRetry lines 182-194: the attempt has failed and is not the last one;
\* delay := getBackoffDelay(attempt, s.cfg); <-time.After(delay); continue
BackoffWait ==
  /\ backoff.MaxAttempts > 0
  /\ backoff.attempt < backoff.MaxAttempts - 1
  /\ backoff' = [backoff EXCEPT
                   !.prev = backoff.delay,
                   !.delay = getBackoffDelay(backoff.attempt, backoff.InitialDelay,
                                             backoff.MaxDelay),
                   !.attempt = backoff.attempt + 1]
  /\ UNCHANGED <<now, storeVars, ctxDone, monVars, handlerVars, watch, log, readVars,
                 retry, mapped, config, mainpc>>

NextBackoff == BackoffWait

SpecBackoff == InitBackoff /\ [][NextBackoff]_vars

\* ------------------------------------------------ the status mapping alone
SeqsUpTo(S, n) == UNION {[1..m -> S] : m \in 0..n}

\* the snapshots considered: GetJobResponse values as decoded from the
\* Runner's JSON (an absent "error" decodes to the empty string)
SnapshotSteps == {Step(ab, o) : ab \in BOOLEAN, o \in {"Success", "Failure"}}
SnapshotBatches ==
  {Batch(e, ss) : e \in {"None", "", "Some error occurred"},
                  ss \in SeqsUpTo(SnapshotSteps, MaxSteps)}
Snapshots ==
  {Reply(st, ab, bs) : st \in {"Running", "Complete", "Waiting", "Queued", "Finished"},
                       ab \in BOOLEAN, bs \in SeqsUpTo(SnapshotBatches, MaxBatches)}

InitMapper ==
  /\ InitProgram
  /\ retry = NoRetry
  /\ backoff = NoBackoff
  /\ mapped \in {[job |-> j, done |-> FALSE, status |-> ""] : j \in Snapshots}
  /\ config = NoConfig

\* GetJobStatus lines 101-115 applied to the snapshot
MapCall ==
  /\ ~mapped.done
  /\ mapped.job \in Snapshots
  /\ mapped' = [mapped EXCEPT !.done = TRUE, !.status = MappedStatus(mapped.job)]
  /\ UNCHANGED <<now, storeVars, ctxDone, monVars, handlerVars, watch, log, readVars,
                 retry, backoff, config, mainpc>>

NextMapper == MapCall

SpecMapper == InitMapper /\ [][NextMapper]_vars

\* ------------------------------------------------------ config.Load alone
Optional(S) == {<<>>} \cup {<<v>> : v \in S}

\* the configuration files considered: absent, not YAML, or a file giving
\* some of the keys
ConfigFiles ==
  {[kind |-> k, content |-> NoFile.content] : k \in {"missing", "malformed"}} \cup
  {[kind |-> "ok",
    content |-> [NoFile.content EXCEPT !.Port = p, !.HordeHost = h, !.HordeAPIKey = a,
                                       !.Interval = i, !.MaxAttempts = n,
                                       !.InitialDelay = d, !.MaxDelay = m]] :
     p \in Optional({-1, 0, 8080, 65535, 65536}),
     h \in Optional({"http://horde"}), a \in Optional({"key"}),
     i \in Optional({10}), n \in Optional({-1, 2}), d \in Optional({2}),
     m \in Optional({7})}

\* the environments considered
Environments ==
  {[NoEnv EXCEPT !.PORT = p, !.HORDE_HOST = h, !.HORDE_API_KEY = a,
                 !.MONITOR_INTERVAL = i] :
     p \in {<<>>, <<"9", "0", "9", "0">>, <<"0">>, <<"-", "1">>, <<"8", "0", "8", "o">>},
     h \in {"", "http://env"}, a \in {"", "envkey"},
     i \in {<<>>, <<"6", "0">>}}

InitConfig ==
  /\ InitProgram
  /\ retry = NoRetry
  /\ backoff = NoBackoff
  /\ mapped = NoMapped
  /\ config \in {[NoConfig EXCEPT !.file = f, !.env = e] :
                   f \in ConfigFiles, e \in Environments}

\* main: cfg, err := config.Load(path)
LoadCall ==
  /\ ~config.done
  /\ config' = [config EXCEPT !.done = TRUE, !.res = Load(config.file, config.env)]
  /\ UNCHANGED <<now, storeVars, ctxDone, monVars, handlerVars, watch, log, readVars,
                 retry, backoff, mapped, mainpc>>

NextConfig == LoadCall

SpecConfig == InitConfig /\ [][NextConfig]_vars

\* ------------------------------------------- JobStorage called directly
\* A client of JobStorage, as storage_test.go is: it calls the methods with
\* mappings it has built, while time passes.
\* pre and preheap: the map and the objects before the call; prev: the
\* method and key of the call before this one
Call(op, k, p, age, supplied, ret) ==
  [op |-> op, key |-> k, obj |-> p, age |-> age, at |-> now, supplied |-> supplied,
   pre |-> jobs, preheap |-> heap, ret |-> ret, prev |-> <<api.op, api.key>>]

\* time passes
Advance ==
  /\ now < MaxTime
  /\ now' = now + 1
  /\ UNCHANGED <<storeVars, ctxDone, monVars, handlerVars, watch, pureVars, readVars, log>>

\* the mappings a client may pass for key k: a new object, or the one it got
\* from Get(k)
ClientMappings(k) ==
  (IF nalloc < MaxObj THEN {nalloc + 1} ELSE {}) \cup
  (IF jobs[k] # 0 THEN {jobs[k]} ELSE {})

\* storage.Store(job.HordeJobID, job), the client having set the fields
ApiStore ==
  \E k \in JobIDs :
    \E p \in ClientMappings(k), status \in {StatusPending, StatusRunning},
       supplied \in Times :
      LET built == [heap EXCEPT ![p] =
                      [HordeJobID |-> k, Changelist |-> "cl1", UpdateURL |-> "u1",
                       Status |-> status,
                       CreatedAt |-> IF p > nalloc THEN now ELSE heap[p].CreatedAt,
                       UpdatedAt |-> supplied]]
      IN /\ heap' = StoreHeap(built, p, now)
         /\ jobs' = StoreJobs(jobs, k, p)
         /\ nalloc' = IF p > nalloc THEN p ELSE nalloc
         /\ api' = Call("Store", k, p, 0, supplied, <<>>)
         /\ stored' = [stored EXCEPT ![k] = p]
         /\ UNCHANGED <<now, ctxDone, monVars, handlerVars, watch, pureVars, readVars, log>>

\* storage.Get(jobID)
ApiGet ==
  \E k \in JobIDs :
    /\ api' = Call("Get", k, Get(k).mapping, 0, 0, <<Get(k).exists>>)
    /\ UNCHANGED <<now, heap, nalloc, jobs, stored, ctxDone, monVars, handlerVars,
                   watch, pureVars, readVars, log>>

\* storage.Delete(jobID)
ApiDelete ==
  \E k \in JobIDs :
    /\ jobs' = DeleteJobs(jobs, k)
    /\ api' = Call("Delete", k, 0, 0, 0, <<>>)
    /\ stored' = [stored EXCEPT ![k] = 0]
    /\ UNCHANGED <<now, heap, nalloc, ctxDone, monVars, handlerVars, watch, pureVars, readVars, log>>

\* storage.List()
ApiList ==
  \E l \in List(jobs) :
    /\ api' = Call("List", 0, 0, 0, 0, l)
    /\ UNCHANGED <<now, heap, nalloc, jobs, stored, ctxDone, monVars, handlerVars,
                   watch, pureVars, readVars, log>>

\* storage.CleanOld(age)
ApiCleanOld ==
  \E age \in 0..MaxAge :
    /\ jobs' = CleanOldJobs(jobs, heap, now, age)
    /\ api' = Call("CleanOld", 0, 0, age, 0, <<>>)
    /\ stored' = [k \in JobIDs |-> IF jobs'[k] = 0 THEN 0 ELSE stored[k]]
    /\ UNCHANGED <<now, heap, nalloc, ctxDone, monVars, handlerVars, watch, pureVars, readVars, log>>

NextStorage == Advance \/ ApiStore \/ ApiGet \/ ApiDelete \/ ApiList \/ ApiCleanOld

SpecStorage == Init /\ [][NextStorage]_vars

\* ------------------------------------------------- main (main.go 184-207)
\* <-quit: the interrupt signal arrives; log "shutting down server"
MainSignal ==
  /\ mainpc = "serving"
  /\ mainpc' = "signalled"
  /\ UNCHANGED <<now, storeVars, ctxDone, monVars, handlerVars, watch, retry, backoff,
                 mapped, config, readVars, log>>

\* ctx, cancel = context.WithTimeout(...); defer cancel(); server.Shutdown(ctx)
\* is called.  The assignment replaces the variables: the monitor's context
\* is not touched.
MainShutdown ==
  /\ mainpc = "signalled"
  /\ mainpc' = "shutting"
  /\ UNCHANGED <<now, storeVars, ctxDone, monVars, handlerVars, watch, retry, backoff,
                 mapped, config, readVars, log>>

\* server.Shutdown returns nil, which it does once no handler is under way,
\* and main returns: the deferred calls run, the one registered first,
\* cancel of the monitor's context, last
MainReturn ==
  /\ mainpc = "shutting"
  /\ hpc = "idle"
  /\ mainpc' = "deferred"
  /\ ctxDone' = TRUE
  /\ UNCHANGED <<now, storeVars, monVars, handlerVars, watch, retry, backoff,
                 mapped, config, readVars, log>>

\* server.Shutdown returns an error: log.Fatal exits the process and no
\* deferred call runs
MainFatal ==
  /\ mainpc = "shutting"
  /\ mainpc' = "fatal"
  /\ UNCHANGED <<now, storeVars, ctxDone, monVars, handlerVars, watch, retry, backoff,
                 mapped, config, readVars, log>>

\* main has returned: the process exits
MainExit ==
  /\ mainpc = "deferred"
  /\ mainpc' = "exited"
  /\ UNCHANGED <<now, storeVars, ctxDone, monVars, handlerVars, watch, retry, backoff,
                 mapped, config, readVars, log>>

Main == MainSignal \/ MainShutdown \/ MainReturn \/ MainFatal \/ MainExit

\* the server goroutine, lines 177-182: before Shutdown is called
\* server.ListenAndServe() returns an error other than http.ErrServerClosed;
\* log.Fatal exits the process and no deferred call runs
ServeFatal ==
  /\ mainpc \in {"serving", "signalled"}
  /\ mainpc' = "failed"
  /\ UNCHANGED <<now, storeVars, ctxDone, monVars, handlerVars, watch, retry, backoff,
                 mapped, config, readVars, log>>

\* the process has not exited: its goroutines run
Alive == mainpc \notin {"exited", "fatal", "failed"}

\* the server accepts a connection and starts handleSwarmTest on its request;
\* the body is read when the handler decodes it
AcceptRequest ==
  /\ hpc = "idle"
  /\ hresp' = NoResponse
  /\ hpc' = "accepted"
  /\ UNCHANGED <<now, storeVars, ctxDone, monVars, rjobs, hjob, hreq, watch, pureVars,
                 readVars, log>>

\* handleSwarmTest lines 58-63: the body does not decode; 400
RequestUndecodable ==
  /\ hpc = "accepted"
  /\ hreq' = [Changelist |-> "", UpdateURL |-> ""]
  /\ hresp' = [NoResponse EXCEPT !.code = 400]
  /\ hpc' = "idle"
  /\ UNCHANGED <<now, storeVars, ctxDone, monVars, rjobs, hjob, watch, pureVars,
                 readVars, log>>

\* lines 58-73: the body decodes and a required field is missing; 400
RequestInvalid ==
  /\ hpc = "accepted"
  /\ \E req \in Requests :
       /\ ~ValidRequest(req)
       /\ hreq' = req
  /\ hresp' = [NoResponse EXCEPT !.code = 400]
  /\ hpc' = "idle"
  /\ UNCHANGED <<now, storeVars, ctxDone, monVars, rjobs, hjob, watch, pureVars,
                 readVars, log>>

\* lines 58-77: the body decodes, both fields are present and
\* hordeService.CreateJob is called; the handler then waits for the Runner
\* and for the backoff waits of withRetry
CallCreateJob(maxJobs) ==
  /\ hpc = "accepted"
  /\ rjobs < maxJobs
  /\ nalloc < MaxObj
  /\ \E req \in Requests :
       /\ ValidRequest(req)
       /\ hreq' = req
  /\ hpc' = "create"
  /\ UNCHANGED <<now, storeVars, ctxDone, monVars, rjobs, hjob, hresp, watch, pureVars,
                 readVars, log>>

\* lines 77-85: CreateJob returns, with a new job ID or with an error (500)
CreateReturns ==
  /\ hpc = "create"
  /\ \E r \in CreateJobResults(rjobs + 1) :
       IF r.err = "nil"
       THEN /\ hjob' = r.val
            /\ rjobs' = rjobs + 1
            /\ hresp' = [NoResponse EXCEPT !.submitted = r.calls > 0]
            /\ hpc' = "store"
       ELSE /\ hjob' = hjob
            /\ rjobs' = rjobs
            /\ hresp' = [NoResponse EXCEPT !.code = 500, !.submitted = r.calls > 0]
            /\ hpc' = "idle"
  /\ UNCHANGED <<now, storeVars, ctxDone, monVars, hreq, watch, pureVars, readVars, log>>

\* the server accepts connections until Shutdown closes its listeners;
\* Shutdown waits for the handlers under way, which go on to the end: a
\* request accepted before Shutdown may be decoded, answered 400 or passed
\* to CreateJob, and be followed by Store and UpdateStatus, after it
Serve(maxJobs) ==
  \/ mainpc \in {"serving", "signalled"} /\ AcceptRequest
  \/ Alive /\ (RequestUndecodable \/ RequestInvalid \/ CallCreateJob(maxJobs))
  \/ Alive /\ (CreateReturns \/ HandleStore \/ HandleNotify)

\* the program with main's shutdown sequence
NextMain == Main \/ ServeFatal \/ Serve(MainJobs) \/ (Alive /\ Monitor(MainTicks))

SpecMain == Init /\ [][NextMain]_vars

\* --------------------------- another caller of JobStorage beside the loop
\* the loop holds a listing in which job k is still to be processed
Pending(k) ==
  /\ mpc \in {"query", "status", "updated", "store", "notify"}
  /\ \E i \in 1..Len(mlist) :
       /\ heap[mlist[i]].HordeJobID = k
       /\ i > mi \/ (i = mi /\ mpc = "query")

\* the other caller's call removed the watched job's record; ok tells whether
\* the loop still had the job to process
RemoveEv(t) == Ev("remove", "other", "", "", 0, Pending(watch), "", 0, <<>>, t)

Removed(after) ==
  IF jobs[watch] # 0 /\ after[watch] = 0 THEN Append(log, RemoveEv(ticks)) ELSE log

\* storage.Delete(jobID) by a caller other than the loop, once
OtherDelete ==
  /\ api.op = "none"
  /\ \E k \in JobIDs :
       /\ jobs' = DeleteJobs(jobs, k)
       /\ api' = Call("Delete", k, 0, 0, 0, <<>>)
       /\ stored' = [stored EXCEPT ![k] = 0]
  /\ log' = Removed(jobs')
  /\ UNCHANGED <<now, heap, nalloc, ctxDone, monVars, handlerVars, watch, pureVars, readVars>>

\* storage.CleanOld(age) by a caller other than the loop, once
OtherCleanOld ==
  /\ api.op = "none"
  /\ \E age \in 0..MaxAge :
       /\ jobs' = CleanOldJobs(jobs, heap, now, age)
       /\ api' = Call("CleanOld", 0, 0, age, 0, <<>>)
  /\ stored' = [k \in JobIDs |-> IF jobs'[k] = 0 THEN 0 ELSE stored[k]]
  /\ log' = Removed(jobs')
  /\ UNCHANGED <<now, heap, nalloc, ctxDone, monVars, handlerVars, watch, pureVars, readVars>>

\* the program with a caller that evicts records while the loop runs
NextEvict ==
  Cancel \/ Handler(EvictJobs) \/ Monitor(EvictTicks) \/ OtherDelete \/ OtherCleanOld

SpecEvict == Init /\ [][NextEvict]_vars

\* ================================================================ claims
\* helpers over the history of the watched job: L holds the events the loop made
L == SelectSeq(log, LAMBDA ev : ev.src = "loop")
Idx == 1..Len(L)
Returned == mpc \in {"idle", "stopped"}
\* checkJobs of tick t has returned
TickDone(t) == ticks > t \/ (ticks = t /\ Returned)
IsObs(p) == L[p].e = "obs"
IsLoopNotify(p) == L[p].e = "notify"
IsDelete(p) == L[p].e = "delete"
IsLoopStore(p) == L[p].e = "store"
TerminalNotifs == {p \in Idx : IsLoopNotify(p) /\ L[p].s \in {"pass", "fail"}}
TerminalObs == {p \in Idx : IsObs(p) /\ L[p].s \in {StatusCompleted, StatusFailed}}
\* the object the handler allocated for the watched job
WatchObj == CHOOSE o \in ObjIds : heap[o].HordeJobID = watch
\* the watched job's events of tick t made by the loop
LoopEvents(t) == SelectSeq(L, LAMBDA ev : ev.t = t)
Observations == SelectSeq(L, LAMBDA ev : ev.e = "obs")
LoopCalls ==
  LET evs == SelectSeq(L, LAMBDA ev : ev.e \in {"obs", "notify"})
  IN [i \in 1..Len(evs) |-> <<evs[i].e, evs[i].s>>]
\* the record of the watched job is as the observation at p found it
Untouched(p) ==
  /\ jobs[watch] = WatchObj
  /\ heap[WatchObj].Status = L[p].was
  /\ heap[WatchObj].UpdatedAt = L[p].at

\* ---------------------------------------------------------------- C1
C1_Case ==
  /\ Returned
  /\ Len(Observations) = 4
  /\ [i \in 1..4 |-> Observations[i].s] =
       <<StatusPending, StatusRunning, StatusRunning, StatusCompleted>>
  /\ Observations[1].was = StatusPending
  /\ \A i \in 1..4 : Observations[i].t = Observations[1].t + i - 1

\* C1: a job stored Pending whose mapped status on four successive ticks is
\* Pending, Running, Running, Completed gets exactly two Notifier calls from
\* the loop, "running" on the second tick and "pass" on the fourth, and is
\* not in the registry once the fourth tick has returned.
C1_PendingRunningRunningCompleted ==
  C1_Case =>
    /\ LoopCalls = << <<"obs", StatusPending>>, <<"obs", StatusRunning>>,
                      <<"notify", "running">>, <<"obs", StatusRunning>>,
                      <<"obs", StatusCompleted>>, <<"notify", "pass">> >>
    /\ ~Get(watch).exists

C1_Witness == C1_Case

\* ---------------------------------------------------------------- C2
\* C2: the loop makes at most one Notifier call with "pass" or "fail" for a
\* job, and the tick that observes a terminal status makes exactly one, with
\* the status that was observed.
C2_OneTerminalNotification ==
  /\ Cardinality(TerminalNotifs) <= 1
  /\ \A q \in TerminalNotifs :
       \E p \in TerminalObs : p < q /\ L[p].t = L[q].t
  /\ \A p \in TerminalObs :
       TickDone(L[p].t) =>
         /\ Cardinality({q \in TerminalNotifs : L[q].t = L[p].t /\ q > p}) = 1
         /\ \A q \in TerminalNotifs :
              L[q].s = (IF L[p].s = StatusCompleted THEN "pass" ELSE "fail")

C2_Witness ==
  /\ ticks = 2
  /\ Returned
  /\ \E p \in TerminalObs : L[p].t = 1
  /\ Cardinality(TerminalNotifs) = 1

\* ---------------------------------------------------------------- C3
\* C3: the record of a job found terminal is deleted only after the Notifier
\* call of that tick, it is deleted whether that call succeeded or failed, and
\* the loop makes no further Notifier call for the job after a failed one.
C3_EvictionAfterNotification ==
  /\ \A p \in Idx :
       IsDelete(p) => \E q \in TerminalNotifs : q < p /\ L[q].t = L[p].t
  /\ \A q \in TerminalNotifs :
       /\ TickDone(L[q].t) =>
            /\ ~Get(watch).exists
            /\ \E p \in Idx : IsDelete(p) /\ p > q
       /\ ~L[q].ok => \A p \in Idx : p > q => ~IsLoopNotify(p)

C3_Witness ==
  /\ Returned
  /\ \E q \in TerminalNotifs : ~L[q].ok /\ \E p \in Idx : IsDelete(p) /\ p > q
  /\ ~Get(watch).exists

\* ---------------------------------------------------------------- C4
\* C4: an observation mapped to Unknown causes no transition: the record's
\* status and updatedAt stay as they were, the loop calls neither Store nor
\* the Notifier for the job in that tick, and the record stays in the registry.
C4_UnknownCausesNoTransition ==
  \A p \in Idx :
    (IsObs(p) /\ L[p].s = StatusUnknown) =>
      /\ \A q \in Idx :
           (q > p /\ L[q].t = L[p].t) => ~(IsLoopStore(q) \/ IsLoopNotify(q))
      /\ p = Len(L) => Untouched(p)

\* ---------------------------------------------------------------- C5
C5_Case(p) == IsObs(p) /\ L[p].s = L[p].was

\* C5: when the mapped status equals the record's status the tick does
\* nothing for the job: no Store, no Notifier call, no deletion, and the
\* record keeps its status and updatedAt.
C5_SameStatusIsNoOp ==
  \A p \in Idx :
    C5_Case(p) =>
      /\ p < Len(L) => (IsObs(p + 1) /\ L[p + 1].t > L[p].t)
      /\ p = Len(L) => Untouched(p)

C5_Witness ==
  \E p \in Idx :
    /\ C5_Case(p)
    /\ p = Len(L)
    /\ TickDone(L[p].t)
    /\ now > L[p].at

\* ---------------------------------------------------------------- C6
C6_Case(p) == IsObs(p) /\ L[p].s = "error"

\* C6: when the status query of a job fails the record is left untouched,
\* the loop calls neither Store nor the Notifier nor Delete for it, and the
\* next tick calls GetJobStatus for the job again.
C6_QueryFailureSkipsJob ==
  \A p \in Idx :
    C6_Case(p) =>
      /\ p < Len(L) => (IsObs(p + 1) /\ L[p + 1].t = L[p].t + 1)
      /\ p = Len(L) => Untouched(p)
      /\ TickDone(L[p].t + 1) => p < Len(L)

C6_Witness ==
  \E p \in Idx :
    /\ C6_Case(p)
    /\ TickDone(L[p].t + 1)
    /\ IsObs(p + 1)

\* ---------------------------------------------------------------- C7
\* the watched job was in the listing of the latest tick
WatchListed == \E i \in 1..Len(mlist) : heap[mlist[i]].HordeJobID = watch
\* another job of the listing failed (its query or its Notifier call)
OtherFailed == mfail \ {watch} # {}
\* what a tick does for a job is decided by that job's own observation
OwnOutcome(evs) ==
  /\ Len(evs) >= 1
  /\ evs[1].e = "obs"
  /\ LET s == evs[1].s
     IN CASE s = "error" \/ s = evs[1].was -> Len(evs) = 1
          [] s \in {StatusPending, StatusUnknown} ->
               Len(evs) = 2 /\ evs[2].e = "store" /\ evs[2].s = s
          [] s = StatusRunning ->
               /\ Len(evs) = 3
               /\ evs[2].e = "store" /\ evs[2].s = s
               /\ evs[3].e = "notify" /\ evs[3].s = "running"
          [] OTHER ->
               /\ Len(evs) = 4
               /\ evs[2].e = "store" /\ evs[2].s = s
               /\ evs[3].e = "notify" /\ evs[3].s \in {"pass", "fail"}
               /\ evs[4].e = "delete"

C7_Case == Returned /\ ticks >= 1 /\ ~ctxDone /\ WatchListed /\ OtherFailed

\* C7: when the query or the Notifier call of one job of a tick fails (the
\* context not being cancelled), every other job of the listing is still
\* queried and reconciled in that tick, as its own observation decides.
C7_PerJobErrorIsolation == C7_Case => OwnOutcome(LoopEvents(ticks))

C7_Witness ==
  /\ C7_Case
  /\ \E i, j \in 1..Len(mlist) :
       /\ i < j
       /\ heap[mlist[i]].HordeJobID \in mfail
       /\ heap[mlist[j]].HordeJobID = watch
  /\ Len(LoopEvents(ticks)) >= 3

\* ---------------------------------------------------------------- C8
C8_Case(p) ==
  /\ IsObs(p)
  /\ L[p].s # "error"
  /\ L[p].s # L[p].was
  /\ TickDone(L[p].t)

\* the Reviewer status the spec gives for a new status ("" for none)
C8_Expected(s) ==
  CASE s = StatusCompleted -> "pass"
    [] s = StatusFailed -> "fail"
    [] s = StatusRunning -> "running"
    [] OTHER -> ""

\* C8: on a status change the record is stored with the new status and the
\* loop then makes exactly one Notifier call for Completed ("pass"), Failed
\* ("fail") and Running ("running") and none for Pending and Unknown; the call
\* carries one message, the callback URL of the job's request and the job ID.
C8_NotificationPerStatus ==
  \A p \in Idx :
    C8_Case(p) =>
      LET calls == {q \in Idx : IsLoopNotify(q) /\ L[q].t = L[p].t}
      IN /\ p < Len(L)
         /\ IsLoopStore(p + 1)
         /\ L[p + 1].s = L[p].s
         /\ IF C8_Expected(L[p].s) = ""
            THEN calls = {}
            ELSE /\ calls = {p + 2}
                 /\ L[p + 2].s = C8_Expected(L[p].s)
                 /\ Len(L[p + 2].msgs) = 1
                 /\ L[p + 2].url = log[1].url
                 /\ L[p + 2].id = watch

C8_Witness ==
  /\ \E p \in Idx : C8_Case(p) /\ L[p].s = StatusFailed
  /\ \E p \in Idx : C8_Case(p) /\ L[p].s = StatusRunning
  /\ log[1].e = "store" /\ log[1].url = "u2"

\* ---------------------------------------------------------------- C9
\* C9: after Store(key, mapping) Get(key) finds the mapping just stored, also
\* when the key held another record; its UpdatedAt is the time of the call,
\* whatever the caller supplied, and not earlier than the UpdatedAt visible
\* under the key before; calls that do not delete the key leave it in place.
C9_StoreThenGet ==
  /\ \A k \in JobIDs : stored[k] # 0 => (Get(k).exists /\ Get(k).mapping = stored[k])
  /\ api.op = "Store" =>
       /\ Get(api.key).exists
       /\ Get(api.key).mapping = api.obj
       /\ heap[api.obj].UpdatedAt = api.at
       /\ api.pre[api.key] # 0 =>
            heap[api.obj].UpdatedAt >= api.preheap[api.pre[api.key]].UpdatedAt
  /\ api.op = "Get" =>
       /\ api.ret[1] = (stored[api.key] # 0)
       /\ api.ret[1] => api.obj = stored[api.key]

C9_Witness ==
  /\ api.op = "Store"
  /\ api.pre[api.key] # 0
  /\ api.pre[api.key] # api.obj
  /\ api.supplied # api.at
  /\ api.at > api.preheap[api.pre[api.key]].UpdatedAt

\* --------------------------------------------------------------- C10
C10_Removed(k) ==
  api.pre[k] # 0 /\ api.preheap[api.pre[k]].UpdatedAt < api.at - api.age

\* C10: CleanOld(maxAge) removes exactly the records whose UpdatedAt is
\* strictly earlier than now - maxAge; every other record, also one whose
\* UpdatedAt equals the cutoff, stays under its key and is not modified.
C10_CleanOldRemovesExactlyOlder ==
  api.op = "CleanOld" =>
    /\ \A k \in JobIDs : jobs[k] = (IF C10_Removed(k) THEN 0 ELSE api.pre[k])
    /\ heap = api.preheap

C10_Witness ==
  /\ api.op = "CleanOld"
  /\ \E k \in JobIDs : C10_Removed(k)
  /\ \E k \in JobIDs :
       /\ jobs[k] # 0
       /\ heap[jobs[k]].UpdatedAt = api.at - api.age

\* --------------------------------------------------------------- C11
\* C11: after Delete(key) Get(key) reports not found; Delete returns nothing
\* (no error) whether the key was present, absent, or deleted by the call
\* before; a second Delete of the key leaves the registry as the first left
\* it; the records under other keys stay in place and are not modified.
C11_DeleteIdempotent ==
  api.op = "Delete" =>
    /\ ~Get(api.key).exists
    /\ api.ret = <<>>
    /\ \A k \in JobIDs \ {api.key} : jobs[k] = api.pre[k]
    /\ heap = api.preheap
    /\ DeleteJobs(jobs, api.key) = jobs
    /\ api.prev = <<"Delete", api.key>> => jobs = api.pre

C11_Witness ==
  /\ api.op = "Delete"
  /\ api.prev = <<"Delete", api.key>>
  /\ \E k \in JobIDs \ {api.key} : Get(k).exists

\* --------------------------------------------------------------- C12
\* the job IDs of the mappings of a listing
ListedIDs(l) == {heap[l[i]].HordeJobID : i \in 1..Len(l)}

\* C12: every key of the registry holds one record of its own, whose
\* HordeJobID is the key; a List result has one entry for every key the map
\* held at the call and no other entry.
C12_OneRecordPerKey ==
  /\ \A k \in JobIDs : Get(k).exists => heap[Get(k).mapping].HordeJobID = k
  /\ \A j, k \in JobIDs :
       (Get(j).exists /\ Get(k).exists /\ j # k) => Get(j).mapping # Get(k).mapping
  /\ lists > 0 =>
       /\ Len(llist) = Cardinality(lkeys)
       /\ ListedIDs(llist) = lkeys
  /\ ticks > 0 => Cardinality(ListedIDs(mlist)) = Len(mlist)

C12_Witness ==
  /\ lists > 0
  /\ Cardinality(lkeys) = 2
  /\ \E k \in lkeys : ~Get(k).exists

\* --------------------------------------------------------------- C13
\* a List result is in the hands of handleListJobs
ListHeld == lpc # "idle"

\* C13: the records of a List result keep the status and updatedAt they had
\* when List returned, whatever Store, loop update or Delete comes later.
C13_ListIsSnapshot ==
  ListHeld =>
    \A i \in 1..Len(llist) :
      /\ heap[llist[i]].Status = lsnap[i].Status
      /\ heap[llist[i]].UpdatedAt = lsnap[i].UpdatedAt

\* --------------------------------------------------------------- C14
\* the (Status, UpdatedAt) pairs Store has left in the watched job's record;
\* in the program the clock reads the number of the tick
Committed ==
  {<<log[i].s, log[i].t>> : i \in {j \in 1..Len(log) : log[j].e = "store"}}

\* C14: every record in a listing response pairs a status with the updatedAt
\* that was stored with it: the encoder never reads a record between the
\* loop's write of Status and its write of UpdatedAt.  Judged once checkJobs
\* has returned, when every write of the loop has been stored.
C14_NoPartialRecord ==
  Returned =>
    \A i \in 1..Len(lout) : <<lout[i].Status, lout[i].UpdatedAt>> \in Committed

\* --------------------------------------------------------------- C15
Min(a, b) == IF a < b THEN a ELSE b

C15_Case == retry.done /\ retry.c = <<"never", 0>>

\* C15: with the context never cancelled and an operation that fails its
\* first k calls, withRetry calls the operation min(k+1, maxAttempts) times;
\* it returns the operation's value and no error iff k < maxAttempts, and
\* otherwise the max-retries-exceeded error wrapping the operation's last
\* error; it waits once between consecutive attempts and not after the last.
C15_BoundedRetry ==
  C15_Case =>
    /\ retry.res.calls = Min(retry.k + 1, retry.maxAttempts)
    /\ retry.res.waits = retry.res.calls - 1
    /\ (retry.res.err = "nil") <=> (retry.k < retry.maxAttempts)
    /\ retry.res.err = "nil" => retry.res.val = "value"
    /\ retry.res.err # "nil" =>
         /\ retry.res.err = "exhausted"
         /\ retry.res.lastErr = "net"
         /\ retry.res.val = "none"

C15_Witness ==
  /\ C15_Case
  /\ retry.maxAttempts >= 2
  /\ retry.k = retry.maxAttempts - 1
  /\ retry.res.calls = retry.maxAttempts

\* --------------------------------------------------------------- C16
\* the context is cancelled during the wait that follows the failed attempt a
C16_Case ==
  /\ retry.done
  /\ retry.c[1] = "wait"
  /\ retry.c[2] < retry.k
  /\ retry.c[2] < retry.maxAttempts - 1

\* C16: cancelled during a backoff wait, withRetry returns ctx.Err(), not
\* the max-retries-exceeded error, and does not call the operation again.
C16_CancelDuringBackoff ==
  C16_Case =>
    /\ retry.res.err = "ctx"
    /\ retry.res.calls = retry.c[2] + 1
    /\ retry.res.val = "none"

C16_Witness ==
  /\ C16_Case
  /\ retry.c[2] = 1
  /\ retry.res.calls = 2

\* --------------------------------------------------------------- C17
\* the context is cancelled during the operation call of attempt a, which
\* then fails
C17_Case ==
  /\ retry.done
  /\ retry.c[1] = "op"
  /\ retry.c[2] <= retry.k
  /\ retry.c[2] < retry.maxAttempts

\* C17: cancelled during the operation call of any attempt, the last one
\* included, withRetry returns at once with the cancellation error and not
\* with the max-retries-exceeded error.
C17_CancelDuringCall ==
  C17_Case =>
    /\ retry.res.err = "ctx"
    /\ retry.res.calls = retry.c[2] + 1

\* --------------------------------------------------------------- C18
RECURSIVE Pow2(_)
Pow2(a) == IF a = 0 THEN 1 ELSE 2 * Pow2(a - 1)

\* min(initialDelay * 2^a, maxDelay) in seconds; beyond a = 20 the product
\* is above every maxDelay considered
C18_Seconds(a, initialDelay, maxDelay) ==
  IF a > 20 THEN maxDelay ELSE Min(initialDelay * Pow2(a), maxDelay)

\* a wait has been made: the one after the failed attempt backoff.attempt - 1
C18_Case == backoff.attempt >= 1

\* C18: the wait after the failed attempt a is min(initialDelay * 2^a,
\* maxDelay) seconds for every a in 0..maxAttempts-2; it is positive, not
\* above maxDelay, and not below the wait before it.
C18_BackoffDelay ==
  C18_Case =>
    /\ backoff.delay =
         Mul64(Second, C18_Seconds(backoff.attempt - 1, backoff.InitialDelay,
                                   backoff.MaxDelay))
    /\ ~Neg64(backoff.delay)
    /\ backoff.delay # Zero64
    /\ ~Greater64(backoff.delay, Mul64(Second, backoff.MaxDelay))
    /\ backoff.attempt >= 2 => ~Greater64(backoff.prev, backoff.delay)

\* --------------------------------------------------------------- C19
\* the snapshot carries an aborted-by-user marker, on the job or on a step
C19_Aborted(job) ==
  \/ job.AbortedByUserId
  \/ \E b \in DOMAIN job.Batches :
       \E s \in DOMAIN job.Batches[b].Steps : job.Batches[b].Steps[s].AbortedByUserId

\* C19: a snapshot with an aborted-by-user marker on the job or on any step
\* of any batch maps to Failed, whatever its state, batch errors and step
\* outcomes.
C19_AbortedMapsToFailed ==
  (mapped.done /\ C19_Aborted(mapped.job)) => mapped.status = StatusFailed

C19_Witness ==
  /\ mapped.done
  /\ ~mapped.job.AbortedByUserId
  /\ mapped.job.State = "Running"
  /\ Len(mapped.job.Batches) = 1
  /\ mapped.job.Batches[1].Error = "None"
  /\ Len(mapped.job.Batches[1].Steps) = 1
  /\ mapped.job.Batches[1].Steps[1] = Step(TRUE, "Success")
  /\ mapped.status = StatusFailed

\* --------------------------------------------------------------- C20
\* some batch reports an error that is neither empty nor "None", or some
\* step's outcome is "Failure"
C20_ErrorRule(job) ==
  \E b \in DOMAIN job.Batches :
    \/ job.Batches[b].Error \notin {"", "None"}
    \/ \E s \in DOMAIN job.Batches[b].Steps : job.Batches[b].Steps[s].Outcome = "Failure"

\* C20: a snapshot without abort marker maps to Failed exactly when some
\* batch reports a non-empty error other than "None" or some step's outcome
\* is "Failure"; a batch with an empty error and no failed step does not
\* make the job Failed.
C20_ErrorsMapToFailed ==
  (mapped.done /\ ~C19_Aborted(mapped.job)) =>
    ((mapped.status = StatusFailed) <=> C20_ErrorRule(mapped.job))

\* --------------------------------------------------------------- C21
\* the snapshot has no abort marker, every batch reports "None" and no step
\* has failed
C21_Case ==
  /\ mapped.done
  /\ ~C19_Aborted(mapped.job)
  /\ \A b \in DOMAIN mapped.job.Batches :
       /\ mapped.job.Batches[b].Error = "None"
       /\ \A s \in DOMAIN mapped.job.Batches[b].Steps :
            mapped.job.Batches[b].Steps[s].Outcome # "Failure"

\* the status the spec gives for a lifecycle state
C21_Expected(state) ==
  CASE state = "Running" -> StatusRunning
    [] state = "Complete" -> StatusCompleted
    [] state \in {"Waiting", "Queued"} -> StatusPending
    [] OTHER -> StatusUnknown

\* C21: without abort marker, batch error and failed step the status follows
\* from the lifecycle state alone: Running to Running, Complete to Completed,
\* Waiting and Queued to Pending, any other string to Unknown; the result is
\* always one of the five statuses.
C21_StateMapsToStatus ==
  /\ mapped.done => mapped.status \in JobStatus
  /\ C21_Case => mapped.status = C21_Expected(mapped.job.State)

\* --------------------------------------------------------------- C22
\* a submission has been answered
C22_Answered == hpc = "idle" /\ hresp.code # 0
C22_Empty(req) == req.Changelist = "" \/ req.UpdateURL = ""

\* C22: a submission with an empty changelist or callback URL is answered
\* 400 without a Runner submit call; it and a submission whose Runner submit
\* failed (answered 500) store no record and make no Notifier call; a
\* request that is being served past the validation has both fields.
C22_RejectedSubmission ==
  /\ C22_Answered =>
       /\ C22_Empty(hreq) =>
            hresp = [code |-> 400, submitted |-> FALSE, stores |-> 0, notifies |-> 0]
       /\ hresp.code = 500 =>
            /\ ~C22_Empty(hreq)
            /\ hresp.stores = 0
            /\ hresp.notifies = 0
       /\ hresp.code \in {400, 500} => nalloc = rjobs
  /\ hpc # "idle" => ~C22_Empty(hreq)

C22_Witness ==
  /\ C22_Answered
  /\ hreq = [Changelist |-> "cl1", UpdateURL |-> ""]
  /\ hresp.code = 400
  /\ \E k \in JobIDs : Get(k).exists

\* --------------------------------------------------------------- C23
\* the events the submission handler made for the watched job
H == SelectSeq(log, LAMBDA ev : ev.src = "handler")
\* the latest answered submission is the one that created the watched job
C23_Accepted == hpc = "idle" /\ hjob = watch /\ hresp.notifies > 0

\* C23: after a successful Runner submit the handler stores one record under
\* the returned job ID with status Pending, then makes one Notifier call with
\* "running" for that job and answers 202; when that call fails the answer
\* is still 202 and the record stays.
C23_SubmissionStoresThenNotifies ==
  /\ log # <<>> => (log[1].src = "handler" /\ log[1].e = "store")
  /\ Len(H) <= 2
  /\ Len(H) >= 1 =>
       /\ H[1].e = "store" /\ H[1].s = StatusPending
       /\ L = <<>> =>
            /\ Get(watch).exists
            /\ heap[Get(watch).mapping].HordeJobID = watch
            /\ heap[Get(watch).mapping].Status = StatusPending
  /\ Len(H) = 2 =>
       /\ H[2].e = "notify" /\ H[2].s = "running"
       /\ H[2].id = watch /\ H[2].url = H[1].url
       /\ (\A p \in Idx : ~IsDelete(p)) => Get(watch).exists
  /\ C23_Accepted =>
       /\ Len(H) = 2
       /\ hresp = [code |-> 202, submitted |-> TRUE, stores |-> 1, notifies |-> 1]

C23_Witness ==
  /\ C23_Accepted
  /\ Len(H) = 2
  /\ ~H[2].ok
  /\ hresp.code = 202
  /\ Get(watch).exists
  /\ ticks > 0

\* --------------------------------------------------------------- C24
\* C24: once the context given to Start is cancelled, Start returns.
C24_StartReturnsAfterCancel == ctxDone ~> (mpc = "stopped")

\* Start has returned with ticks still to come and a job still tracked
C24_Witness ==
  /\ ctxDone
  /\ mpc = "stopped"
  /\ ticks >= 1
  /\ ticks < StopTicks
  /\ \E k \in JobIDs : Get(k).exists

\* --------------------------------------------------------------- C25
WatchAllocated == \E o \in ObjIds : heap[o].HordeJobID = watch
TerminalStatus == {StatusCompleted, StatusFailed}

\* C25: once the record of a job is Completed or Failed its status no longer
\* changes, the loop neither queries nor notifies the job in a later tick,
\* and the record is gone when the tick that made it terminal has returned.
C25_TerminalIsAbsorbing ==
  /\ \A p \in TerminalObs :
       /\ \A q \in Idx : q > p => (L[q].t = L[p].t /\ ~IsObs(q))
       /\ TickDone(L[p].t) => ~Get(watch).exists
       /\ (\E q \in Idx : q > p /\ IsLoopStore(q)) => heap[WatchObj].Status = L[p].s
  /\ (WatchAllocated /\ heap[WatchObj].Status \in TerminalStatus) =>
       \E p \in TerminalObs : L[p].s = heap[WatchObj].Status

C25_Witness ==
  /\ ticks = 2
  /\ Returned
  /\ WatchAllocated
  /\ heap[WatchObj].Status = StatusCompleted
  /\ \E p \in TerminalObs : L[p].t = 1
  /\ \E k \in JobIDs \ {watch} : Get(k).exists /\ heap[Get(k).mapping].UpdatedAt = 2

\* --------------------------------------------------------------- C26
\* the Store calls made for the watched job, by the handler and by the loop
Stores == SelectSeq(log, LAMBDA ev : ev.e = "store")

\* C26: the status that Get and List show for a job is the one given to the
\* latest Store call for it: the loop makes no change visible before Store.
C26_ChangeOnlyThroughStore ==
  (Get(watch).exists /\ Stores # <<>>) =>
    heap[Get(watch).mapping].Status = Last(Stores).s

\* --------------------------------------------------------------- C27
\* the fields of a record that identify the job and its request
Identity(m) == <<m.HordeJobID, m.Changelist, m.UpdateURL, m.CreatedAt>>
\* this step is one of checkJobs lines 74-76
UpdateStep == mpc \in {"status", "updated", "store"} /\ mpc' # mpc

\* what every step leaves alone
FrameStep ==
  /\ \A o \in ObjIds :
       heap[o].HordeJobID # 0 => Identity(heap'[o]) = Identity(heap[o])
  /\ UpdateStep =>
       /\ \A o \in ObjIds \ {mlist[mi]} : heap'[o] = heap[o]
       /\ \A k \in JobIDs \ {heap[mlist[mi]].HordeJobID} : jobs'[k] = jobs[k]

\* the watched record is as the handler built it
AsInserted ==
  WatchAllocated => Identity(heap[WatchObj]) = <<watch, "cl1", log[1].url, log[1].t>>

\* C27: a record keeps its job ID, request and createdAt from insertion on,
\* and the loop's update of a job (lines 74-76) changes no other record and
\* no other key of the registry.
C27_UpdateFrame == []AsInserted /\ [][FrameStep]_vars

C27_Witness ==
  /\ mpc = "notify"
  /\ heap[mlist[mi]].HordeJobID = watch
  /\ heap[WatchObj].UpdatedAt > heap[WatchObj].CreatedAt
  /\ heap[WatchObj].Status = StatusRunning
  /\ \E k \in JobIDs \ {watch} : Get(k).exists /\ heap[Get(k).mapping].UpdatedAt < now

\* the value Load sees for a string field: the environment's, else the file's
C28_Given(field, var) ==
  IF config.env[var] # "" THEN config.env[var]
  ELSE IF config.file.content[field] = <<>> THEN ""
  ELSE config.file.content[field][1]

\* neither the file nor the environment gives the integer field
C28_Omitted(field, var) ==
  config.file.content[field] = <<>> /\ config.env[var] = <<>>

\* Load has returned for a readable file that, with the environment, gives
\* the Horde host and API key, while nothing gives the server port
C28_Case ==
  /\ config.done
  /\ config.file.kind = "ok"
  /\ C28_Given("HordeHost", "HORDE_HOST") # ""
  /\ C28_Given("HordeAPIKey", "HORDE_API_KEY") # ""
  /\ C28_Omitted("Port", "PORT")

\* C28: Load of a configuration that gives the Horde host and API key but
\* no server port, with PORT unset, succeeds with Server.Port = 8080, and the
\* retry settings and monitor interval it omits are 3, 1, 5 and 30.
C28_PortDefaultsTo8080 ==
  C28_Case =>
    /\ config.res.err = "nil"
    /\ config.res.cfg.Port = 8080
    /\ C28_Omitted("MaxAttempts", "RETRY_MAX_ATTEMPTS") => config.res.cfg.MaxAttempts = 3
    /\ C28_Omitted("InitialDelay", "RETRY_INITIAL_DELAY") => config.res.cfg.InitialDelay = 1
    /\ C28_Omitted("MaxDelay", "RETRY_MAX_DELAY") => config.res.cfg.MaxDelay = 5
    /\ C28_Omitted("Interval", "MONITOR_INTERVAL") => config.res.cfg.Interval = 30

\* --------------------------------------------------------------- C29
\* the loop is inside the pass of a job of the current listing
InPass == mpc \in {"query", "status", "updated", "store", "notify"}

\* the loop has made the watched job's terminal Notifier call in this tick
\* and has gone on to another job of the same listing
C29_NextJobStarted ==
  /\ InPass
  /\ heap[mlist[mi]].HordeJobID # watch
  /\ \E p \in TerminalNotifs : L[p].t = ticks

\* C29: the record of a job found terminal is removed right after its
\* Notifier call: once the loop processes the next job of the same tick the
\* registry no longer holds it.
C29_EvictedBeforeNextJob == C29_NextJobStarted => ~Get(watch).exists

\* --------------------------------------------------------------- C30
\* the removals of the watched record by the other caller made while the
\* loop held a listing with the job still to be processed
C30_RacingRemovals ==
  {i \in 1..Len(log) : log[i].e = "remove" /\ log[i].ok}

\* C30: a record that CleanOld or Delete removes after the tick's listing
\* and before the loop processes the job is not in the registry when that
\* tick has returned: the loop does not insert it again.
C30_RemovedStaysRemoved ==
  \A i \in C30_RacingRemovals : TickDone(log[i].t) => ~Get(watch).exists

\* --------------------------------------------------------------- C31
\* main has called server.Shutdown, or has gone past it
ShutdownStarted == mainpc \in {"shutting", "deferred", "exited", "fatal"}

\* C31: from the start of the HTTP server's shutdown on, on every exit
\* path, the context given to JobMonitor.Start is cancelled.
C31_CancelledWhenShutdownStarts == ShutdownStarted => ctxDone

\* --------------------------------------------------------------- C32
\* the Notifier calls made for the watched job, by the handler and the loop
Notifications == SelectSeq(log, LAMBDA ev : ev.e = "notify")

\* C32: the handler's 'running' notification of a job comes before every
\* notification the loop makes for the job; no 'running' follows a 'pass' or
\* 'fail' of the same job.
C32_HandlerNotifiesFirst ==
  \A i, j \in 1..Len(Notifications) :
    i < j =>
      /\ ~(Notifications[i].src = "loop" /\ Notifications[j].src = "handler")
      /\ ~(Notifications[i].s \in {"pass", "fail"} /\ Notifications[j].s = "running")

\* --------------------------------------------------------------- C33
\* the keys whose record in the registry is Completed or Failed
TerminalKeys ==
  {k \in JobIDs : Get(k).exists /\ heap[Get(k).mapping].Status \in TerminalStatus}

\* C33: when checkJobs has returned no record of the registry is Completed
\* or Failed; a terminal status is in the registry only within the tick that
\* observed it.
C33_NoTerminalRecordBetweenTicks ==
  /\ Returned => TerminalKeys = {}
  /\ watch \in TerminalKeys => \E p \in TerminalObs : L[p].t = ticks

C33_Witness ==
  /\ Returned
  /\ ticks = 2
  /\ \E p \in TerminalObs : L[p].t = 1
  /\ ~Get(watch).exists
  /\ \E k \in JobIDs \ {watch} :
       Get(k).exists /\ heap[Get(k).mapping].Status = StatusRunning

\* --------------------------------------------------------------- C34
\* the Notifier calls the loop made for the watched job
LoopNotifications == SelectSeq(L, LAMBDA ev : ev.e = "notify")

\* C34: two consecutive Notifier calls of the loop for a job never carry
\* the same status.
C34_NoRedundantNotification ==
  \A i \in 1..(Len(LoopNotifications) - 1) :
    LoopNotifications[i + 1].s # LoopNotifications[i].s

\* --------------------------------------------------------------- C35
\* the context is cancelled and the loop is between two jobs, or between two
\* ticks, with no Delete deferred: the state in which a tick that starts
\* after the cancellation begins, and in which it stays
CancelledIdle == ctxDone /\ mpc \in {"idle", "query"} /\ mdefer = <<>>

\* this step is one of the loop
MonStep == monVars' # monVars

\* what a step of the loop does from there: it lists, or it skips the job
\* after a query that invoked nothing, and the registry is as it was
SkipStep ==
  (CancelledIdle /\ MonStep) =>
    /\ CancelledIdle' \/ mpc' = "stopped"
    /\ jobs' = jobs
    /\ heap' = heap
    /\ L' = L \/ (Len(L') = Len(L) + 1 /\ L'[Len(L')].e = "obs" /\ L'[Len(L')].s = "error")

\* with the context cancelled withRetry returns ctx.Err() and has not
\* invoked the operation
CancelledBeforeOperation ==
  ctxDone =>
    \A k \in 0..RetryMaxAttempts, reply \in RunnerReplies :
      LET r == withRetry(RetryMaxAttempts, k, reply, <<"before", 0>>)
      IN r.err = "ctx" /\ r.calls = 0

\* C35: a tick that starts after the context was cancelled makes no Runner
\* query, no Store, no Delete and no Notifier call: every job is skipped and
\* the registry is unchanged by the tick.
C35_CancelledTickDoesNothing == []CancelledBeforeOperation /\ [][SkipStep]_vars

C35_Witness ==
  /\ ctxDone
  /\ Returned
  /\ ticks = 2
  /\ Len(mlist) = 2
  /\ \E p \in Idx : IsLoopNotify(p) /\ L[p].t = 1 /\ L[p].ok
  /\ Len(LoopEvents(2)) = 1
  /\ LoopEvents(2)[1].e = "obs" /\ LoopEvents(2)[1].s = "error"
  /\ Get(watch).exists /\ heap[WatchObj].UpdatedAt = 1

\* --------------------------------------------------------------- C37
\* C37: whatever Retry.MaxAttempts is configured, zero and negative values
\* included, withRetry called with an uncancelled context calls the operation
\* at least once, and an error it returns is the cancellation error or wraps
\* an error the operation returned.
C37_AtLeastOneAttempt ==
  retry.done =>
    /\ retry.res.calls >= 1
    /\ retry.res.err # "nil" =>
         \/ retry.res.err = "ctx"
         \/ retry.res.err = "exhausted" /\ retry.res.lastErr # "nil"

\* --------------------------------------------------------------- C36
\* the loop gets the answer to a status query
QueryStep == mpc = "query" /\ (mpc' # "query" \/ mi' # mi)

\* the query succeeded with a terminal status
TerminalAnswer ==
  /\ heap[mlist[mi]].HordeJobID \notin mfail'
  /\ mcur' \in TerminalStatus

\* from some point on every status query succeeds with a terminal status
EventuallyAllTerminal == <>[][QueryStep => TerminalAnswer]_vars

\* a record leaves the registry only by the deferred Delete of a tick that
\* found it terminal
RemovalStep ==
  \A k \in JobIDs :
    (jobs[k] # 0 /\ jobs'[k] = 0) =>
      /\ mpc = "defer"
      /\ Last(mdefer) = k
      /\ heap[jobs[k]].Status \in TerminalStatus

\* every tick lists every record of the registry and goes on to query
ListingStep ==
  (mpc = "idle" /\ mpc' # "idle" /\ mpc' # "stopped") =>
    /\ ListedIDs(mlist') = {k \in JobIDs : jobs[k] # 0}
    /\ mpc' = "query"

\* the Notifier call of a terminal job has been made and its Delete waits
Notified(k) == \E i \in 1..Len(mdefer) : mdefer[i] = k

\* C36: while the context is not cancelled and ticks keep occurring, a
\* tracked job whose queries from some point on all succeed with a terminal
\* status gets its terminal Notifier call and is then removed; until a tick
\* finds it terminal a job stays in the registry and every tick queries it.
C36_TrackedUntilTerminal ==
  /\ [][RemovalStep /\ ListingStep]_vars
  /\ EventuallyAllTerminal =>
       \A k \in JobIDs :
         /\ (jobs[k] # 0) ~> (Notified(k) \/ ctxDone)
         /\ Notified(k) ~> (jobs[k] = 0)

C36_Witness ==
  /\ ~ctxDone
  /\ mpc = "idle"
  /\ ticks = LiveTicks
  /\ \E k \in JobIDs :
       /\ jobs[k] = 0
       /\ \E o \in ObjIds : heap[o].HordeJobID = k /\ heap[o].Status = StatusCompleted
  /\ mlist = <<>>

====
